---- MODULE Spec2Model ----
(***************************************************************************)
(* Batch lifecycle adapter: the Status Reconciler of the Anthropic message *)
(* batches adapter (litellm/llms/anthropic/batches/transformation.py).     *)
(*                                                                         *)
(* A raw vendor payload (a decoded JSON object) is held in `raw`; every    *)
(* call of to_litellm_batch on it stores the returned LiteLLMBatch in      *)
(* `batch`.  The wall clock and uuid4 are inputs of each call.             *)
(*                                                                         *)
(* The other components (Request Encoder, Error Mapper, Result Locator,    *)
(* the provider adapters) are exercised by their own specifications: the   *)
(* argument of the operation is held in `arg`, what it returned or raised  *)
(* in `out`, and the HTTP requests it issued in `http`.                    *)
(***************************************************************************)
EXTENDS Integers, FiniteSets, Sequences, TLC

VARIABLES
    raw,      \* batch_obj: the raw message_batch payload handed to to_litellm_batch
    batch,    \* the LiteLLMBatch returned by the latest call, NoBatch before the first
    calls,    \* number of to_litellm_batch calls made on raw so far
    arg,      \* the argument(s) of the operation under examination
    out,      \* what the operation returned or raised, Idle before it ran
    http      \* the HTTP requests the operation issued, in order

vars == <<raw, batch, calls, arg, out, http>>

(***************************************************************************)
(* Bounds.                                                                 *)
(***************************************************************************)
\* vendor counters range over -MaxCount..MaxCount (and missing / null)
MaxCount == 1
\* number of times the same payload is reconciled
MaxCalls == 2

(***************************************************************************)
(* JSON / Python values.  A dict is a record over all the keys the code    *)
(* reads; a key the payload does not carry holds Absent.                   *)
(***************************************************************************)
Absent == [t |-> "absent"]
Null == [t |-> "null"]
Str(s) == [t |-> "str", v |-> s]
Num(n) == [t |-> "int", v |-> n]
\* a string in ISO-8601 form: the written date-time as seconds counted from
\* 1970-01-01T00:00:00, its milliseconds, and its zone designator
Iso(wall, ms, tz) == [t |-> "iso", wall |-> wall, ms |-> ms, tz |-> tz]

CounterKeys == {"processing", "succeeded", "errored", "canceled", "expired"}
EmptyDict == [k \in CounterKeys |-> Absent]

\* Python truthiness of a value
Truthy(x) == x \notin {Null, Str(""), Num(0), EmptyDict}
\* x or y
Or(x, y) == IF Truthy(x) THEN x ELSE y
\* d.get(k)
get(d, k) == IF d[k] = Absent THEN Null ELSE d[k]
\* d.get(k, default)
get_default(d, k, default) == IF d[k] = Absent THEN default ELSE d[k]
\* int(x) of an integer
int(x) == x.v

(***************************************************************************)
(* iso_to_epoch                                                            *)
(***************************************************************************)
endswith_Z(iso_str) == iso_str.tz = "Z"
replace_Z(iso_str) == [iso_str EXCEPT !.tz = "+00:00"]
utcoffset(tz) ==
    CASE tz = "+00:00" -> 0
      [] tz = "+01:00" -> 3600
      [] tz = "-05:00" -> 0 - 18000
\* datetime.fromisoformat of a well-formed string with an explicit offset
fromisoformat(s) == [wall |-> s.wall, ms |-> s.ms, off |-> utcoffset(s.tz)]
\* variant: the written time is taken as UTC, the offset is not subtracted
int_timestamp_no_offset(dt) == dt.wall
\* int(dt.timestamp()): seconds since the epoch, truncated toward zero
int_timestamp(dt) ==
    LET secs == dt.wall - dt.off
    IN  IF secs < 0 /\ dt.ms > 0 THEN secs + 1 ELSE secs

iso_to_epoch(iso_str) ==
    IF ~Truthy(iso_str) THEN Null
    ELSE IF iso_str.t # "iso" THEN Null    \* fromisoformat raises: except -> None
    ELSE IF endswith_Z(iso_str)
         THEN Num(int_timestamp(fromisoformat(replace_Z(iso_str))))
         ELSE Num(int_timestamp(fromisoformat(iso_str)))

(***************************************************************************)
(* to_litellm_batch                                                        *)
(***************************************************************************)
anth_counts(batch_obj) == Or(get_default(batch_obj, "request_counts", EmptyDict), EmptyDict)
counter(counts, key) == int(Or(get_default(counts, key, Num(0)), Num(0)))

\* variant: only errored items are counted as failed
request_counts_mapped_failed_errored(processing, succeeded, errored, canceled, expired) ==
    [completed |-> succeeded,
     failed    |-> errored,
     total     |-> processing + succeeded + errored + canceled + expired]
\* variant: expired items are left out of the total
request_counts_mapped_total_no_expired(processing, succeeded, errored, canceled, expired) ==
    [completed |-> succeeded,
     failed    |-> errored + canceled + expired,
     total     |-> processing + succeeded + errored + canceled]
request_counts_mapped(processing, succeeded, errored, canceled, expired) ==
    [completed |-> succeeded,
     failed    |-> errored + canceled + expired,
     total     |-> processing + succeeded + errored + canceled + expired]

\* variant: the mixed-outcome test runs before the cancelled / expired tests
derive_status_failed_first(processing_status, succeeded, errored, canceled, expired) ==
    IF processing_status = Str("canceling") THEN Str("cancelling")
    ELSE IF processing_status = Str("in_progress") THEN Str("in_progress")
    ELSE IF processing_status = Str("ended") THEN
        IF errored > 0 \/ canceled > 0 \/ expired > 0 THEN Str("failed")
        ELSE IF canceled > 0 /\ succeeded = 0 /\ errored = 0 /\ expired = 0 THEN Str("cancelled")
        ELSE IF expired > 0 /\ succeeded = 0 /\ errored = 0 /\ canceled = 0 THEN Str("expired")
        ELSE Str("completed")
    ELSE Or(processing_status, Str("validating"))
\* variant: the mixed-outcome branch is missing
derive_status_no_mixed(processing_status, succeeded, errored, canceled, expired) ==
    IF processing_status = Str("canceling") THEN Str("cancelling")
    ELSE IF processing_status = Str("in_progress") THEN Str("in_progress")
    ELSE IF processing_status = Str("ended") THEN
        IF canceled > 0 /\ succeeded = 0 /\ errored = 0 /\ expired = 0 THEN Str("cancelled")
        ELSE IF expired > 0 /\ succeeded = 0 /\ errored = 0 /\ canceled = 0 THEN Str("expired")
        ELSE IF errored > 0 /\ succeeded = 0 THEN Str("failed")
        ELSE Str("completed")
    ELSE Or(processing_status, Str("validating"))
\* variant: an unrecognised raw status is replaced by the default
derive_status_unknown_validating(processing_status, succeeded, errored, canceled, expired) ==
    IF processing_status = Str("canceling") THEN Str("cancelling")
    ELSE IF processing_status = Str("in_progress") THEN Str("in_progress")
    ELSE IF processing_status = Str("ended") THEN
        IF canceled > 0 /\ succeeded = 0 /\ errored = 0 /\ expired = 0 THEN Str("cancelled")
        ELSE IF expired > 0 /\ succeeded = 0 /\ errored = 0 /\ canceled = 0 THEN Str("expired")
        ELSE IF errored > 0 /\ succeeded = 0 THEN Str("failed")
        ELSE IF errored > 0 \/ canceled > 0 \/ expired > 0 THEN Str("failed")
        ELSE Str("completed")
    ELSE Str("validating")
\* variant: the vendor spelling of the cancelling state is returned as is
derive_status_raw_canceling(processing_status, succeeded, errored, canceled, expired) ==
    IF processing_status = Str("canceling") THEN Str("canceling")
    ELSE IF processing_status = Str("in_progress") THEN Str("in_progress")
    ELSE IF processing_status = Str("ended") THEN
        IF canceled > 0 /\ succeeded = 0 /\ errored = 0 /\ expired = 0 THEN Str("cancelled")
        ELSE IF expired > 0 /\ succeeded = 0 /\ errored = 0 /\ canceled = 0 THEN Str("expired")
        ELSE IF errored > 0 /\ succeeded = 0 THEN Str("failed")
        ELSE IF errored > 0 \/ canceled > 0 \/ expired > 0 THEN Str("failed")
        ELSE Str("completed")
    ELSE Or(processing_status, Str("validating"))
\* variant: only in_progress is tested, a canceling batch is derived like an ended one
derive_status_canceling_as_ended(processing_status, succeeded, errored, canceled, expired) ==
    IF processing_status = Str("in_progress") THEN Str("in_progress")
    ELSE IF processing_status \in {Str("canceling"), Str("ended")} THEN
        IF canceled > 0 /\ succeeded = 0 /\ errored = 0 /\ expired = 0 THEN Str("cancelled")
        ELSE IF expired > 0 /\ succeeded = 0 /\ errored = 0 /\ canceled = 0 THEN Str("expired")
        ELSE IF errored > 0 /\ succeeded = 0 THEN Str("failed")
        ELSE IF errored > 0 \/ canceled > 0 \/ expired > 0 THEN Str("failed")
        ELSE Str("completed")
    ELSE Or(processing_status, Str("validating"))
derive_status(processing_status, succeeded, errored, canceled, expired) ==
    IF processing_status = Str("canceling") THEN Str("cancelling")
    ELSE IF processing_status = Str("in_progress") THEN Str("in_progress")
    ELSE IF processing_status = Str("ended") THEN
        IF canceled > 0 /\ succeeded = 0 /\ errored = 0 /\ expired = 0 THEN Str("cancelled")
        ELSE IF expired > 0 /\ succeeded = 0 /\ errored = 0 /\ canceled = 0 THEN Str("expired")
        ELSE IF errored > 0 /\ succeeded = 0 THEN Str("failed")
        ELSE IF errored > 0 \/ canceled > 0 \/ expired > 0 THEN Str("failed")
        ELSE Str("completed")
    ELSE Or(processing_status, Str("validating"))

created_at_epoch(created_at_iso, now) == Or(iso_to_epoch(created_at_iso), Num(now))

\* variant: the ended epoch is tested for truth, so epoch 0 is dropped
status_timestamp_truthy(ended_at_epoch, status, name) ==
    IF status = Str(name) /\ Truthy(ended_at_epoch) THEN ended_at_epoch ELSE Null
\* variant: completed_at is always taken from the ended epoch
status_timestamp_completed_always(ended_at_epoch, status, name) ==
    IF status = Str(name) \/ name = "completed" THEN ended_at_epoch ELSE Null
\* <name>_at_epoch = ended_at_epoch if status == <name> else None
status_timestamp(ended_at_epoch, status, name) ==
    IF status = Str(name) THEN ended_at_epoch ELSE Null

\* variant: a fresh uuid replaces the vendor's id
batch_id_always_fresh(batch_obj, uuid4) == Str(uuid4)
batch_id(batch_obj, uuid4) == get_default(batch_obj, "id", Str(uuid4))

to_litellm_batch(batch_obj, now, uuid4) ==
    LET processing_status == get(batch_obj, "processing_status")
        created_at_iso == get(batch_obj, "created_at")
        ended_at_iso == get(batch_obj, "ended_at")
        cancel_initiated_at_iso == get(batch_obj, "cancel_initiated_at")
        counts == anth_counts(batch_obj)
        processing == counter(counts, "processing")
        succeeded == counter(counts, "succeeded")
        errored == counter(counts, "errored")
        canceled == counter(counts, "canceled")
        expired == counter(counts, "expired")
        status == derive_status(processing_status, succeeded, errored, canceled, expired)
        ended_at_epoch == iso_to_epoch(ended_at_iso)
        cancelling_at_epoch == iso_to_epoch(cancel_initiated_at_iso)
    IN  [id                |-> batch_id(batch_obj, uuid4),
         object            |-> Str("batch"),
         endpoint          |-> get_default(batch_obj, "endpoint", Str("/v1/messages")),
         input_file_id     |-> Str(""),
         completion_window |-> Str("24h"),
         status            |-> status,
         created_at        |-> created_at_epoch(created_at_iso, now),
         metadata          |-> Null,
         request_counts    |-> request_counts_mapped(processing, succeeded, errored,
                                                     canceled, expired),
         usage             |-> Null,
         errors            |-> Null,
         output_file_id    |-> Or(get(batch_obj, "results_url"), Null),
         error_file_id     |-> Null,
         expired_at        |-> status_timestamp(ended_at_epoch, status, "expired"),
         expires_at        |-> iso_to_epoch(get(batch_obj, "expires_at")),
         failed_at         |-> status_timestamp(ended_at_epoch, status, "failed"),
         finalizing_at     |-> Null,
         in_progress_at    |-> Null,
         cancelled_at      |-> status_timestamp(ended_at_epoch, status, "cancelled"),
         cancelling_at     |-> cancelling_at_epoch,
         completed_at      |-> status_timestamp(ended_at_epoch, status, "completed")]

(***************************************************************************)
(* Inputs: the raw payloads, the clock readings and the uuid4 results.     *)
(***************************************************************************)
NoBatch == [t |-> "nobatch"]

\* datetime.now(tz=utc).timestamp() readings
Clock == {1730000000, 1730000060}
\* str(uuid.uuid4()) results
UUIDs == {"uuid-a", "uuid-b"}

CounterValues == {Absent, Null} \cup {Num(n) : n \in (0 - MaxCount)..MaxCount}
CountsObjects == [CounterKeys -> CounterValues]
RequestCountsValues == {Absent, Null} \cup CountsObjects

ZeroCounts == [k \in CounterKeys |-> Num(0)]
\* one payload per branch of the status derivation
BranchCounts ==
    {Absent, Null, ZeroCounts} \cup {[ZeroCounts EXCEPT ![k] = Num(1)] : k \in CounterKeys}

StatusValues ==
    {Absent, Null, Str(""), Str("canceling"), Str("in_progress"), Str("ended"),
     Str("completed"), Str("paused")}

\* "1970-01-01T00:00:00Z"
IsoEpochZero == Iso(0, 0, "Z")
\* "2024-08-20T18:37:24Z"
IsoCreated == Iso(1724179044, 0, "Z")
\* "2024-08-20T20:45:10.500+01:00"
IsoEnded == Iso(1724186710, 500, "+01:00")
\* "2024-08-20T14:40:00-05:00"
IsoCancel == Iso(1724164800, 0, "-05:00")
\* "2024-08-21T18:37:24Z"
IsoExpires == Iso(1724265444, 0, "Z")
NotADate == Str("not-a-date")

CreatedAtValues == {Absent, NotADate, IsoEpochZero, IsoCreated}
EndedAtValues == {Absent, NotADate, IsoEpochZero, IsoEnded}
CancelInitiatedAtValues == {Absent, NotADate, IsoCancel}
ExpiresAtValues == {Absent, IsoExpires}
IdValues == {Absent, Str("msgbatch_01")}
ResultsUrlValues == {Absent, Str("https://api.anthropic.com/v1/messages/batches/msgbatch_01/results")}

Payload(ps, created, ended, cancel, expires, counts, id, url) ==
    [processing_status   |-> ps,
     created_at          |-> created,
     ended_at            |-> ended,
     cancel_initiated_at |-> cancel,
     expires_at          |-> expires,
     request_counts      |-> counts,
     id                  |-> id,
     endpoint            |-> Absent,
     results_url         |-> url]

\* every combination of counters and status, on a payload with well-formed timestamps
CounterPayloads ==
    {Payload(ps, IsoCreated, IsoEnded, Absent, IsoExpires, counts, Str("msgbatch_01"), Absent) :
        ps \in StatusValues, counts \in RequestCountsValues}

\* every combination of status, timestamps, id and results_url
TimestampPayloads ==
    {Payload(ps, created, ended, cancel, expires, counts, id, url) :
        ps \in StatusValues, created \in CreatedAtValues, ended \in EndedAtValues,
        cancel \in CancelInitiatedAtValues, expires \in ExpiresAtValues,
        counts \in BranchCounts, id \in IdValues, url \in ResultsUrlValues}

RawPayloads == CounterPayloads \cup TimestampPayloads

(***************************************************************************)
(* The state machine.                                                      *)
(***************************************************************************)
Idle == [t |-> "idle"]

Init ==
    /\ raw \in RawPayloads
    /\ batch = NoBatch
    /\ calls = 0
    /\ arg = Idle
    /\ out = Idle
    /\ http = <<>>

\* one call of to_litellm_batch(raw)
Reconcile ==
    /\ calls < MaxCalls
    /\ \E now \in Clock, uuid4 \in UUIDs :
          batch' = to_litellm_batch(raw, now, uuid4)
    /\ calls' = calls + 1
    /\ UNCHANGED <<raw, arg, out, http>>

Next == Reconcile

Spec == Init /\ [][Next]_vars

(***************************************************************************)
(* Properties of the Status Reconciler.                                    *)
(***************************************************************************)
Called == batch # NoBatch

\* the vendor counter k of raw, a missing or null counter (or request_counts) read as 0
CountOf(k) ==
    IF raw.request_counts \in {Absent, Null} THEN 0
    ELSE IF raw.request_counts[k] \in {Absent, Null} THEN 0
    ELSE raw.request_counts[k].v

NonNegativeCounters == \A k \in CounterKeys : CountOf(k) >= 0

RawEnded == raw.processing_status = Str("ended")

\* the precedence table of the terminal vendor status
PrecedenceTable(succeeded, errored, canceled, expired) ==
    IF canceled > 0 /\ succeeded = 0 /\ errored = 0 /\ expired = 0 THEN "cancelled"
    ELSE IF expired > 0 /\ succeeded = 0 /\ errored = 0 /\ canceled = 0 THEN "expired"
    ELSE IF errored > 0 \/ canceled > 0 \/ expired > 0 THEN "failed"
    ELSE "completed"

CanonicalStatuses ==
    {Str("validating"), Str("in_progress"), Str("finalizing"), Str("completed"),
     Str("failed"), Str("expired"), Str("cancelling"), Str("cancelled")}
TerminalStatuses == {Str("completed"), Str("failed"), Str("expired"), Str("cancelled")}
TerminalFields == {"completed_at", "failed_at", "expired_at", "cancelled_at"}
\* the status a terminal field is named after
FieldStatus(f) ==
    CASE f = "completed_at" -> Str("completed")
      [] f = "failed_at"    -> Str("failed")
      [] f = "expired_at"   -> Str("expired")
      [] f = "cancelled_at" -> Str("cancelled")
SetTerminalFields == {f \in TerminalFields : batch[f] # Null}

\* s is a present, well-formed ISO-8601 string
Parses(s) == s.t = "iso"
\* the instant a well-formed ISO-8601 string denotes, in whole epoch seconds
EpochOf(s) ==
    LET off == CASE s.tz \in {"Z", "+00:00"} -> 0
                 [] s.tz = "+01:00" -> 3600
                 [] s.tz = "-05:00" -> 0 - 18000
        secs == s.wall - off
    IN  IF secs < 0 /\ s.ms > 0 THEN secs + 1 ELSE secs

\* C1: for a raw "ended" payload the returned status is the entry of the
\* precedence table for (succeeded, errored, canceled, expired); the processing
\* counter, the timestamps and the other fields have no influence on it.
C1_StatusByPrecedenceTable ==
    (Called /\ RawEnded) =>
        batch.status = Str(PrecedenceTable(CountOf("succeeded"), CountOf("errored"),
                                           CountOf("canceled"), CountOf("expired")))
C1_Witness ==
    /\ Called /\ RawEnded
    /\ CountOf("canceled") = 1 /\ CountOf("processing") = 1
    /\ CountOf("succeeded") = 0 /\ CountOf("errored") = 0 /\ CountOf("expired") = 0
    /\ batch.status = Str("cancelled")

\* C2 as stated: a raw "ended" payload reported completed has failed = 0 and
\* completed = total.
C2_CompletedMeansAllSucceeded ==
    (Called /\ RawEnded /\ batch.status = Str("completed")) =>
        /\ batch.request_counts.failed = 0
        /\ batch.request_counts.completed = batch.request_counts.total
\* C2 amended: for non-negative counters, a raw "ended" payload reported
\* completed has failed = 0 (no errored, canceled or expired item), and total
\* exceeds completed by exactly the processing counter.
C2_CompletedMeansNoFailure ==
    (Called /\ RawEnded /\ NonNegativeCounters /\ batch.status = Str("completed")) =>
        /\ batch.request_counts.failed = 0
        /\ CountOf("errored") = 0 /\ CountOf("canceled") = 0 /\ CountOf("expired") = 0
        /\ batch.request_counts.total
              = batch.request_counts.completed + CountOf("processing")
C2_Witness ==
    /\ Called /\ RawEnded /\ NonNegativeCounters
    /\ batch.status = Str("completed")
    /\ CountOf("succeeded") = 1 /\ CountOf("processing") = 1
    /\ batch.request_counts = [completed |-> 1, failed |-> 0, total |-> 2]

\* C3: completed = succeeded, failed = errored + canceled + expired,
\* total = processing + succeeded + errored + canceled + expired, a missing or
\* null counter (or request_counts object) counting as 0.
C3_CounterReduction ==
    Called =>
        batch.request_counts =
            [completed |-> CountOf("succeeded"),
             failed    |-> CountOf("errored") + CountOf("canceled") + CountOf("expired"),
             total     |-> CountOf("processing") + CountOf("succeeded") + CountOf("errored")
                             + CountOf("canceled") + CountOf("expired")]
C3_Witness ==
    /\ Called
    /\ raw.request_counts \notin {Absent, Null}
    /\ raw.request_counts["processing"] = Absent
    /\ raw.request_counts["canceled"] = Null
    /\ raw.request_counts["succeeded"] = Num(1)
    /\ raw.request_counts["errored"] = Num(1)
    /\ raw.request_counts["expired"] = Num(1)
    /\ batch.request_counts = [completed |-> 1, failed |-> 2, total |-> 3]

\* C4 as stated: for any integer counters, the mapped counts are non-negative
\* and completed + failed <= total.
C4_CountsInvariantAnyIntegers ==
    Called =>
        /\ batch.request_counts.completed >= 0
        /\ batch.request_counts.failed >= 0
        /\ batch.request_counts.total >= 0
        /\ batch.request_counts.completed + batch.request_counts.failed
              <= batch.request_counts.total
\* C4 amended: when the vendor counters are non-negative integers (or missing
\* or null), the mapped counts are non-negative and completed + failed <= total.
C4_CountsInvariantNonNegative ==
    (Called /\ NonNegativeCounters) =>
        /\ batch.request_counts.completed >= 0
        /\ batch.request_counts.failed >= 0
        /\ batch.request_counts.total >= 0
        /\ batch.request_counts.completed + batch.request_counts.failed
              <= batch.request_counts.total
C4_Witness ==
    /\ Called /\ NonNegativeCounters
    /\ CountOf("processing") = 1 /\ CountOf("succeeded") = 1 /\ CountOf("expired") = 1
    /\ batch.request_counts.completed + batch.request_counts.failed = 2
    /\ batch.request_counts.total = 3

\* C5 as stated: exactly one terminal *_at field is non-null iff the status is
\* terminal.
C5_TerminalFieldIffTerminalStatus ==
    Called => ((Cardinality(SetTerminalFields) = 1) <=> (batch.status \in TerminalStatuses))
\* C5 amended: exactly one terminal *_at field is non-null iff the status is
\* terminal and ended_at is present and parsable; otherwise all four are null.
C5_TerminalFieldIffTerminalAndEnded ==
    Called =>
        IF batch.status \in TerminalStatuses /\ Parses(raw.ended_at)
        THEN Cardinality(SetTerminalFields) = 1
        ELSE SetTerminalFields = {}
C5_Witness ==
    /\ Called
    /\ raw.processing_status = Str("completed")
    /\ raw.ended_at = Iso(0, 0, "Z")
    /\ batch.status = Str("completed")
    /\ SetTerminalFields = {"completed_at"}
    /\ batch.completed_at = Num(0)

\* C6: at most one terminal *_at field is non-null; a non-null one is the field
\* named after the returned status and holds the epoch of ended_at; under a
\* non-terminal status all four are null even if ended_at is present.
C6_EndedAtGoesToMatchingField ==
    Called =>
        /\ Cardinality(SetTerminalFields) <= 1
        /\ \A f \in SetTerminalFields :
              /\ batch.status = FieldStatus(f)
              /\ Parses(raw.ended_at)
              /\ batch[f] = Num(EpochOf(raw.ended_at))
        /\ (batch.status \notin TerminalStatuses => SetTerminalFields = {})
C6_Witness ==
    /\ Called /\ RawEnded
    /\ raw.ended_at = Iso(1724186710, 500, "+01:00")
    /\ batch.status = Str("failed")
    /\ batch.failed_at = Num(1724183110)
    /\ SetTerminalFields = {"failed_at"}

\* C7: cancelling_at is the epoch of cancel_initiated_at whatever the derived
\* status, and null when cancel_initiated_at is absent or unparsable.
C7_CancellingAtFromCancelInitiated ==
    Called =>
        IF Parses(raw.cancel_initiated_at)
        THEN batch.cancelling_at = Num(EpochOf(raw.cancel_initiated_at))
        ELSE batch.cancelling_at = Null
C7_Witness ==
    /\ Called /\ RawEnded
    /\ raw.cancel_initiated_at = Iso(1724164800, 0, "-05:00")
    /\ batch.status = Str("completed")
    /\ batch.cancelling_at = Num(1724182800)

\* C8: a raw status other than "canceling", "in_progress" and "ended" is
\* returned unchanged whatever the counters are; an absent or empty one gives
\* "validating".
C8_UnknownStatusPassesThrough ==
    Called =>
        /\ (raw.processing_status \in {Absent, Null, Str("")}
               => batch.status = Str("validating"))
        /\ (raw.processing_status \notin
               {Absent, Null, Str(""), Str("canceling"), Str("in_progress"), Str("ended")}
               => batch.status = raw.processing_status)
C8_Witness ==
    /\ Called
    /\ raw.processing_status = Str("paused")
    /\ CountOf("errored") = 1 /\ CountOf("canceled") = 0 - 1
    /\ batch.status = Str("paused")

\* C9 as stated: the returned status is one of the eight canonical values.
C9_StatusIsCanonical == Called => batch.status \in CanonicalStatuses
\* C9 amended: the returned status is one of the eight canonical values when
\* the raw status is "canceling", "in_progress", "ended", absent or empty; any
\* other raw status is returned as it is, canonical or not.
C9_StatusCanonicalOrPassedThrough ==
    Called =>
        IF raw.processing_status \in
              {Absent, Null, Str(""), Str("canceling"), Str("in_progress"), Str("ended")}
        THEN batch.status \in CanonicalStatuses
        ELSE batch.status = raw.processing_status
C9_Witness ==
    /\ Called
    /\ raw.processing_status = Str("canceling")
    /\ batch.status = Str("cancelling")

\* the fields of a batch other than id and created_at
WithoutIdAndCreated(b) == [b EXCEPT !.id = Null, !.created_at = Null]

\* C10 as stated: a second call on the same payload returns a batch equal to
\* the first in every field.
C10_SecondCallIdentical == [][Called => batch' = batch]_vars
\* C10 amended: a second call on the same payload returns a batch equal to the
\* first in every field other than id and created_at; id is equal too when the
\* payload carries one, and created_at when the payload's created_at parses to
\* a non-zero epoch.
C10_SecondCallIdenticalButDefaults ==
    [][Called =>
        /\ WithoutIdAndCreated(batch') = WithoutIdAndCreated(batch)
        /\ (raw.id # Absent => batch'.id = batch.id)
        /\ ((Parses(raw.created_at) /\ EpochOf(raw.created_at) # 0)
               => batch'.created_at = batch.created_at)]_vars
C10_Witness ==
    /\ calls = 2
    /\ raw.id = Str("msgbatch_01")
    /\ raw.created_at = Iso(1724179044, 0, "Z")
    /\ raw.ended_at = Str("not-a-date")
    /\ batch.id = Str("msgbatch_01")
    /\ batch.created_at = Num(1724179044)

(***************************************************************************)
(* Request Encoder: build_requests_from_jsonl.                             *)
(*                                                                         *)
(* jsonl_content is held as the sequence of its lines (str.splitlines);    *)
(* the empty string is the empty sequence.  A line is blank, not JSON, or  *)
(* a JSON value; a JSON object is a dict over the keys the code reads.     *)
(***************************************************************************)
\* number of lines of a submission
MaxLines == 3

Dict(custom_id, body, model, messages) ==
    [t |-> "dict", custom_id |-> custom_id, body |-> body, model |-> model,
     messages |-> messages]
isinstance_dict(x) == x.t = "dict"

\* ""
BlankLine == [t |-> "blank", text |-> ""]
\* "{not json"
InvalidLine == [t |-> "invalid"]
\* "[1, 2]"
ArrayLine == [t |-> "json", v |-> [t |-> "list"]]

\* the text of the messages of line i: every line of a submission differs
MessagesAt(tag, i) == Str(tag \o ToString(i))
\* line i of a submission, of the given shape; an object line is
\* {"custom_id": ..., "body": ..., "model": "claude-top", "messages": "top-<i>"}
\* and a dict body is {"model": "claude-nested", "messages": "nested-<i>"}
LineAt(shape, i) ==
    LET body == CASE shape.body = "absent" -> Absent
                  [] shape.body = "null"   -> Null
                  [] shape.body = "text"   -> Str("text")
                  [] shape.body = "dict"   ->
                         Dict(Absent, Absent, Str("claude-nested"), MessagesAt("nested-", i))
    IN  CASE shape.kind = "blank"   -> BlankLine
          [] shape.kind = "spaces"  -> [t |-> "blank", text |-> "   "]
          [] shape.kind = "invalid" -> InvalidLine
          [] shape.kind = "array"   -> ArrayLine
          [] shape.kind = "object"  ->
                 [t |-> "json",
                  v |-> Dict(shape.cid, body, Str("claude-top"), MessagesAt("top-", i))]

JsonlContent(lines) == [t |-> "str", lines |-> lines]
\* input_file_id of a submission: JSONL text, or None
InputFileIds ==
    LET LineShapes ==
            {[kind |-> k, cid |-> Absent, body |-> "absent"] :
                k \in {"blank", "spaces", "invalid", "array"}}
            \cup {[kind |-> "object", cid |-> cid, body |-> b] :
                    cid \in {Absent, Str(""), Str("my-id")},
                    b \in {"absent", "null", "text", "dict"}}
    IN  {Null} \cup
        {JsonlContent([i \in 1..Len(shapes) |-> LineAt(shapes[i], i)]) :
            shapes \in UNION {[1..n -> LineShapes] : n \in 0..MaxLines}}

\* truth value of a str / None
nonempty(s) == s # Null /\ s.lines # <<>>

\* variant: no fallback to the top-level object
resolve_body_no_fallback(obj) ==
    IF isinstance_dict(obj) THEN get(obj, "body") ELSE Null
\* variant: a body that is not an object falls back to the top-level object
resolve_body_fallback_top(obj) ==
    LET body == IF isinstance_dict(obj) THEN get(obj, "body") ELSE Null
    IN  IF ~isinstance_dict(body) /\ isinstance_dict(obj) THEN obj ELSE body
\* body = obj.get("body") if dict else None; if body is None and dict: body = obj
resolve_body(obj) ==
    LET body == IF isinstance_dict(obj) THEN get(obj, "body") ELSE Null
    IN  IF body = Null /\ isinstance_dict(obj) THEN obj ELSE body

\* AnthropicConfig.map_openai_params + transform_request: the wire body of one line
transform_request(body) ==
    [model |-> get(body, "model"), messages |-> get_default(body, "messages", Str("[]"))]

\* variant: the default id counts from 0
default_custom_id_zero_based(idx) == Str("req-" \o ToString(idx))
\* f"req-{idx+1}"
default_custom_id(idx) == Str("req-" \o ToString(idx + 1))

\* one pass of the loop body: the items line idx adds to requests.
\* line = raw_line.strip(); if not line: continue; json.loads(line) raises: continue
line_requests(raw_line, idx) ==
    IF raw_line.t = "blank" THEN <<>>
    ELSE IF raw_line.t = "invalid" THEN <<>>
    ELSE LET obj == raw_line.v
             body == resolve_body(obj)
         IN  IF ~isinstance_dict(body) THEN <<>>
             ELSE <<[custom_id |-> Or(get(obj, "custom_id"), default_custom_id(idx)),
                     params    |-> transform_request(body)]>>

RECURSIVE enumerate_lines(_, _)
\* for idx, raw_line in enumerate(lines), from idx on
enumerate_lines(lines, idx) ==
    IF idx >= Len(lines) THEN <<>>
    ELSE line_requests(lines[idx + 1], idx) \o enumerate_lines(lines, idx + 1)

build_requests_from_jsonl(jsonl_content) ==
    IF ~nonempty(jsonl_content) THEN <<>>
    ELSE enumerate_lines(jsonl_content.lines, 0)

InitEncoder ==
    /\ raw = Idle
    /\ batch = NoBatch
    /\ calls = 0
    /\ arg \in InputFileIds
    /\ out = Idle
    /\ http = <<>>

\* a direct call of build_requests_from_jsonl(arg)
Encode ==
    /\ out = Idle
    /\ out' = [t |-> "requests", requests |-> build_requests_from_jsonl(arg)]
    /\ UNCHANGED <<raw, batch, calls, arg, http>>

(***************************************************************************)
(* Properties of the Request Encoder.                                      *)
(***************************************************************************)
Encoded == out.t = "requests"
\* the items the encoder returned
Requests == out.requests
\* the lines of the submission (none for a missing or empty one)
InputLines == IF arg = Null THEN <<>> ELSE arg.lines

IsObjectLine(line) == line.t = "json" /\ line.v.t = "dict"
HasObjectBody(line) == IsObjectLine(line) /\ line.v.body.t = "dict"
HasNoBody(line) == IsObjectLine(line) /\ line.v.body \in {Absent, Null}
\* the line is non-blank, parses as JSON and resolves to an object body
Usable(line) == HasObjectBody(line) \/ HasNoBody(line)
UsableLines == {i \in 1..Len(InputLines) : Usable(InputLines[i])}
\* the number of the k-th usable line
KthUsable(k) ==
    CHOOSE i \in UsableLines : Cardinality({j \in UsableLines : j <= i}) = k
\* the messages written on line i, in the object that is its request body
MessagesOf(i) ==
    IF HasObjectBody(InputLines[i]) THEN InputLines[i].v.body.messages
    ELSE InputLines[i].v.messages
NonBlankLines == {i \in 1..Len(InputLines) : InputLines[i].t # "blank"}

\* C12: the encoder returns exactly one item per usable line (non-blank, valid
\* JSON, resolving to an object body), in input order; every other line is
\* dropped; when every non-blank line is usable the output has one item per
\* non-blank line.
C12_OneItemPerUsableLine ==
    Encoded =>
        /\ Len(Requests) = Cardinality(UsableLines)
        /\ \A k \in 1..Len(Requests) :
              Requests[k].params.messages = MessagesOf(KthUsable(k))
        /\ (NonBlankLines \subseteq UsableLines => Len(Requests) = Cardinality(NonBlankLines))
C12_Witness ==
    /\ Encoded
    /\ Len(InputLines) = 3
    /\ InputLines[1] = InvalidLine
    /\ HasNoBody(InputLines[2])
    /\ InputLines[3].t = "json" /\ InputLines[3].v.t = "dict" /\ InputLines[3].v.body = Str("text")
    /\ Len(Requests) = 1
    /\ Requests[1].params.messages = Str("top-2")

\* C13: an item keeps the custom_id its line supplies, and otherwise gets
\* "req-N", N the 1-based number of the line in the raw input; defaulted ids
\* of different lines differ.
SuppliesCustomId(line) == line.v.custom_id \notin {Absent, Null, Str("")}
C13_CustomIdKeptOrLineNumber ==
    Encoded =>
        /\ \A k \in 1..Len(Requests) :
              LET i == KthUsable(k)
              IN  IF SuppliesCustomId(InputLines[i])
                  THEN Requests[k].custom_id = InputLines[i].v.custom_id
                  ELSE Requests[k].custom_id = Str("req-" \o ToString(i))
        /\ \A k, l \in 1..Len(Requests) :
              (/\ k # l
               /\ ~SuppliesCustomId(InputLines[KthUsable(k)])
               /\ ~SuppliesCustomId(InputLines[KthUsable(l)]))
                 => Requests[k].custom_id # Requests[l].custom_id
C13_Witness ==
    /\ Encoded
    /\ Len(InputLines) = 3
    /\ InputLines[1] = BlankLine
    /\ InputLines[2] = ArrayLine
    /\ HasObjectBody(InputLines[3]) /\ InputLines[3].v.custom_id = Absent
    /\ Len(Requests) = 1
    /\ Requests[1].custom_id = Str("req-3")

\* C14 as stated: a JSON-object line with an object `body` uses that nested
\* object as the request body; every other JSON-object line (no body, or a
\* body that is not an object) uses the top-level object and yields an item.
C14_BodyOrTopLevel ==
    Encoded =>
        \A i \in 1..Len(InputLines) :
            IsObjectLine(InputLines[i]) =>
                \E k \in 1..Len(Requests) :
                    Requests[k].params.messages =
                        IF HasObjectBody(InputLines[i])
                        THEN InputLines[i].v.body.messages
                        ELSE InputLines[i].v.messages
\* the items made from line i, recognised by the messages written on it
ItemsOfLine(i) ==
    {k \in 1..Len(Requests) :
        Requests[k].params.messages \in {InputLines[i].v.messages, MessagesAt("nested-", i)}}
\* C14 amended: a JSON-object line with an object `body` uses that nested
\* object as the request body; a line with no body field or a null body uses
\* the top-level object; a line whose body has any other value yields no item.
C14_BodyOrTopLevelOrDropped ==
    Encoded =>
        \A i \in 1..Len(InputLines) :
            IsObjectLine(InputLines[i]) =>
                IF HasObjectBody(InputLines[i])
                THEN \E k \in 1..Len(Requests) :
                        /\ ItemsOfLine(i) = {k}
                        /\ Requests[k].params =
                              [model    |-> InputLines[i].v.body.model,
                               messages |-> InputLines[i].v.body.messages]
                ELSE IF HasNoBody(InputLines[i])
                THEN \E k \in 1..Len(Requests) :
                        /\ ItemsOfLine(i) = {k}
                        /\ Requests[k].params =
                              [model    |-> InputLines[i].v.model,
                               messages |-> InputLines[i].v.messages]
                ELSE ItemsOfLine(i) = {}
C14_Witness ==
    /\ Encoded
    /\ Len(InputLines) = 3
    /\ HasObjectBody(InputLines[1])
    /\ IsObjectLine(InputLines[2]) /\ InputLines[2].v.body = Null
    /\ IsObjectLine(InputLines[3]) /\ InputLines[3].v.body = Str("text")
    /\ Len(Requests) = 2
    /\ Requests[1].params = [model |-> Str("claude-nested"), messages |-> Str("nested-1")]
    /\ Requests[2].params = [model |-> Str("claude-top"), messages |-> Str("top-2")]

(***************************************************************************)
(* Error Mapper: raise_mapped_error.                                       *)
(*                                                                         *)
(* An httpx.Response is its status code and its body; the body is its     *)
(* text together with the value the text decodes to as JSON (NotJson when  *)
(* it does not decode).  A JSON object is a record over the keys the code  *)
(* reads, a key the object does not carry holding Absent.                  *)
(***************************************************************************)
NotJson == [t |-> "notjson"]
JObject(errorMessage, error, message) ==
    [t |-> "object", errorMessage |-> errorMessage, error |-> error, message |-> message]
JArray(items) == [t |-> "array", items |-> items]
JsonBody(text, value) == [text |-> text, value |-> value]
TextBody(text) == [text |-> text, value |-> NotJson]
Response(status_code, body) == [status_code |-> status_code, body |-> body]

\* resp.json() raises
json_fails(resp) == resp.body.value = NotJson
\* resp.json()
json(resp) == resp.body.value
\* resp.text
text(resp) == resp.body.text
\* resp.is_error: 400 <= status_code <= 599
is_error(resp) == 400 <= resp.status_code /\ resp.status_code <= 599

\* variant: the generic 5xx test runs before the 503 test
mapped_error_type_5xx_first(status) ==
    IF status = 400 THEN "BadRequestError"
    ELSE IF status = 401 THEN "AuthenticationError"
    ELSE IF status = 403 THEN "PermissionDeniedError"
    ELSE IF status = 404 THEN "NotFoundError"
    ELSE IF status = 408 THEN "APITimeoutError"
    ELSE IF status = 409 THEN "BadRequestError"
    ELSE IF status = 422 THEN "UnprocessableEntityError"
    ELSE IF status = 429 THEN "RateLimitError"
    ELSE IF status >= 500 THEN "APIError"
    ELSE IF status = 503 THEN "ServiceUnavailableError"
    ELSE "APIConnectionError"
\* the class of the exception raise_mapped_error raises
mapped_error_type(status) ==
    IF status = 400 THEN "BadRequestError"
    ELSE IF status = 401 THEN "AuthenticationError"
    ELSE IF status = 403 THEN "PermissionDeniedError"
    ELSE IF status = 404 THEN "NotFoundError"
    ELSE IF status = 408 THEN "APITimeoutError"
    ELSE IF status = 409 THEN "BadRequestError"
    ELSE IF status = 422 THEN "UnprocessableEntityError"
    ELSE IF status = 429 THEN "RateLimitError"
    ELSE IF status = 503 THEN "ServiceUnavailableError"
    ELSE IF status >= 500 THEN "APIError"
    ELSE "APIConnectionError"

\* the exception an operation ends with; response is the httpx.Response it
\* carries (Null when it carries none)
Raise(type, message, response) ==
    [t |-> "raise", type |-> type, message |-> message, response |-> response]
Return(value) == [t |-> "return", value |-> value]

raise_mapped_error(resp, operation) ==
    LET status == resp.status_code
        payload == IF json_fails(resp) THEN JObject(Absent, Str(text(resp)), Absent)
                   ELSE json(resp)
        \* f"{operation} failed. Error code: {status} - {json.dumps(payload)}"
        error_message == [operation |-> operation, status |-> status, payload |-> payload]
    IN  Raise(mapped_error_type(status), error_message, resp)

\* {"error": {"message": ...}}
ErrorJson(message) == JObject(Absent, JObject(Absent, Absent, Str(message)), Absent)
\* the responses raise_mapped_error is called on: a status code and a body
ErrorResponses ==
    {Response(s, b) :
        s \in {100, 200, 204, 302, 399, 400, 401, 403, 404, 408, 409, 418, 422, 429, 499,
               500, 502, 503, 504, 599},
        b \in {JsonBody("{\"error\": {\"message\": \"not found\"}}", ErrorJson("not found")),
               JsonBody("{\"error\": {\"message\": \"overloaded\"}}", ErrorJson("overloaded")),
               JsonBody("{\"error\": \"plain\"}", JObject(Absent, Str("plain"), Absent)),
               JsonBody("[]", JArray(<<>>)),
               TextBody(""), TextBody("<html>Bad Gateway</html>")}}

InitMapper ==
    /\ raw = Idle
    /\ batch = NoBatch
    /\ calls = 0
    /\ arg \in ErrorResponses
    /\ out = Idle
    /\ http = <<>>

\* a call of raise_mapped_error(arg, operation)
RaiseMappedError ==
    /\ out = Idle
    /\ \E operation \in {"Create batch", "Retrieve batch", "List batches", "Cancel batch"} :
          out' = raise_mapped_error(arg, operation)
    /\ UNCHANGED <<raw, batch, calls, arg, http>>

NextMapper == RaiseMappedError

SpecMapper == InitMapper /\ [][NextMapper]_vars

\* the status-to-kind table of the Error Mapper, first match wins
KindTable(status) ==
    CASE status \in {400, 409} -> "BadRequestError"
      [] status = 401 -> "AuthenticationError"
      [] status = 403 -> "PermissionDeniedError"
      [] status = 404 -> "NotFoundError"
      [] status = 408 -> "APITimeoutError"
      [] status = 422 -> "UnprocessableEntityError"
      [] status = 429 -> "RateLimitError"
      [] status = 503 -> "ServiceUnavailableError"
      [] status >= 500 /\ status # 503 -> "APIError"
      [] OTHER -> "APIConnectionError"

\* C16: raise_mapped_error always raises, and the class of the raised error is
\* the entry of the status table for the response's status, whatever its body.
C16_KindByStatusAlone ==
    (out # Idle /\ arg \in ErrorResponses) =>
        /\ out.t = "raise"
        /\ out.type = KindTable(arg.status_code)
C16_Witness ==
    /\ out # Idle
    /\ arg = Response(503, TextBody("<html>Bad Gateway</html>"))
    /\ out.t = "raise"
    /\ out.type = "ServiceUnavailableError"

(***************************************************************************)
(* AnthropicBatchesAPI: create / retrieve / list / cancel.                 *)
(*                                                                         *)
(* Each operation is an operator from its arguments and from what the      *)
(* transport answers (a Response, or an exception raised by httpx) to the  *)
(* pair of its outcome and of the HTTP requests it issued.                 *)
(***************************************************************************)
\* httpx raised instead of answering (timeout, connection failure)
TransportError(type) == [t |-> "transport_error", type |-> type]
\* the transport raised instead of answering
is_raised(answer) == "t" \in DOMAIN answer
Request(method, url, payload) == [method |-> method, url |-> url, json |-> payload]
Outcome(o, requests) == [out |-> o, http |-> requests]

\* base = api_base or self.api_base; one trailing "/" is removed
_get_base_url(api_base) ==
    LET base == IF api_base = Null THEN [v |-> "https://api.anthropic.com", slashes |-> ""]
                ELSE api_base
    IN  base.v \o (IF base.slashes = "//" THEN "/" ELSE "")
_get_batches_url(api_base) == _get_base_url(api_base) \o "/v1/messages/batches"

\* the value resp.json() gives is a JSON object holding a message batch
is_batch_obj(value) == "processing_status" \in DOMAIN value

\* variant: an empty requests list is never rejected
create_batch_rejects_never(requests_payload, input_file_id) == FALSE
\* len(requests_payload) == 0 and input_file_id
create_batch_rejects(requests_payload, input_file_id) ==
    Len(requests_payload) = 0 /\ nonempty(input_file_id)

\* create_batch and _acreate_batch (which calls create_batch with _is_async=False)
create_batch(api_base, input_file_id, resp, now, uuid4) ==
    LET requests_payload == build_requests_from_jsonl(input_file_id)
        req == Request("POST", _get_batches_url(api_base), [requests |-> requests_payload])
    IN  IF create_batch_rejects(requests_payload, input_file_id)
        THEN Outcome(Raise("ValueError", Str("Anthropic batches require JSONL content"), Null),
                     <<>>)
        ELSE IF is_raised(resp)
        THEN Outcome(Raise(resp.type, Str("transport"), Null), <<req>>)
        ELSE IF is_error(resp)
        THEN Outcome(raise_mapped_error(resp, "Create batch"), <<req>>)
        ELSE IF json_fails(resp)
        THEN Outcome(Raise("JSONDecodeError", Str(text(resp)), Null), <<req>>)
        ELSE IF ~is_batch_obj(json(resp))
        THEN Outcome(Raise("AttributeError", Str("get"), Null), <<req>>)
        ELSE Outcome(Return(to_litellm_batch(json(resp), now, uuid4)), <<req>>)

\* {"id": "msgbatch_01", "processing_status": "in_progress", ...}: a batch just created
CreatedPayload ==
    Payload(Str("in_progress"), IsoCreated, Absent, Absent, IsoExpires,
            [ZeroCounts EXCEPT !["processing"] = Num(1)], Str("msgbatch_01"), Absent)
CreatedBody == JsonBody("{\"id\": \"msgbatch_01\", ...}", CreatedPayload)

\* a call of create_batch with input_file_id = arg and the default api_base
CreateBatch ==
    /\ out = Idle
    /\ \E resp \in {TransportError("ConnectTimeout"), Response(200, CreatedBody),
                     Response(400, JsonBody("{\"error\": {\"message\": \"invalid\"}}",
                                            ErrorJson("invalid")))},
          now \in Clock, uuid4 \in UUIDs :
          LET r == create_batch(Null, arg, resp, now, uuid4)
          IN  /\ out' = r.out
              /\ http' = r.http
    /\ UNCHANGED <<raw, batch, calls, arg>>

NextEncoder == Encode \/ CreateBatch

SpecEncoder == InitEncoder /\ [][NextEncoder]_vars

(***************************************************************************)
(* C15                                                                     *)
(***************************************************************************)
Created == out # Idle /\ out.t \in {"raise", "return"}
NonEmptyInput == Len(InputLines) > 0
PostsWithEmptyRequests ==
    {i \in 1..Len(http) : http[i].method = "POST" /\ http[i].json = [requests |-> <<>>]}

JBool(b) == [t |-> "bool", v |-> b]
\* the mapping a list response decodes to; a key it does not carry holds Absent
ListPage(data, has_more, first_id, last_id) ==
    [t |-> "page", data |-> data, has_more |-> has_more, first_id |-> first_id,
     last_id |-> last_id]

\* retrieve_batch and _aretrieve_batch (which calls retrieve_batch with _is_async=False)
retrieve_batch(api_base, bid, resp, now, uuid4) ==
    LET req == Request("GET", _get_batches_url(api_base) \o "/" \o bid, Null)
    IN  IF is_raised(resp)
        THEN Outcome(Raise(resp.type, Str("transport"), Null), <<req>>)
        ELSE IF is_error(resp)
        THEN Outcome(raise_mapped_error(resp, "Retrieve batch"), <<req>>)
        ELSE IF json_fails(resp)
        THEN Outcome(Raise("JSONDecodeError", Str(text(resp)), Null), <<req>>)
        ELSE IF ~is_batch_obj(json(resp))
        THEN Outcome(Raise("AttributeError", Str("get"), Null), <<req>>)
        ELSE Outcome(Return(to_litellm_batch(json(resp), now, uuid4)), <<req>>)

\* list_batches and _alist_batches (which calls list_batches with _is_async=False)
list_batches(api_base, resp, now, uuid4) ==
    LET req == Request("GET", _get_batches_url(api_base), Null)
    IN  IF is_raised(resp)
        THEN Outcome(Raise(resp.type, Str("transport"), Null), <<req>>)
        ELSE IF is_error(resp)
        THEN Outcome(raise_mapped_error(resp, "List batches"), <<req>>)
        ELSE IF json_fails(resp)
        THEN Outcome(Raise("JSONDecodeError", Str(text(resp)), Null), <<req>>)
        \* resp.json() is not a JSON object (a dict)
        ELSE IF ~(is_batch_obj(json(resp)) \/ json(resp).t \in {"object", "page"})
        THEN Outcome(Raise("AttributeError", Str("get"), Null), <<req>>)
        ELSE LET resp_json == json(resp)
                 \* resp_json.get(key, default): a dict that is no list page has none
                 \* of the keys read here
                 page_get(key, default) ==
                     IF is_batch_obj(resp_json) \/ resp_json.t = "object" THEN default
                     ELSE get_default(resp_json, key, default)
                 items == page_get("data", JArray(<<>>)).items
                 mapped == [i \in 1..Len(items) |-> to_litellm_batch(items[i], now, uuid4)]
             IN  Outcome(Return([data     |-> mapped,
                                 has_more |-> page_get("has_more", JBool(FALSE)),
                                 object   |-> "list",
                                 first_id |-> page_get("first_id", Null),
                                 last_id  |-> page_get("last_id", Null)]),
                         <<req>>)

\* Batch(id=batch.id, ..., completed_at=batch.completed_at)
Batch(b) ==
    [id                |-> b.id,
     object            |-> b.object,
     endpoint          |-> b.endpoint,
     input_file_id     |-> b.input_file_id,
     completion_window |-> b.completion_window,
     status            |-> b.status,
     created_at        |-> b.created_at,
     metadata          |-> b.metadata,
     request_counts    |-> b.request_counts,
     usage             |-> b.usage,
     errors            |-> b.errors,
     output_file_id    |-> b.output_file_id,
     error_file_id     |-> b.error_file_id,
     expired_at        |-> b.expired_at,
     expires_at        |-> b.expires_at,
     failed_at         |-> b.failed_at,
     finalizing_at     |-> b.finalizing_at,
     in_progress_at    |-> b.in_progress_at,
     cancelled_at      |-> b.cancelled_at,
     cancelling_at     |-> b.cancelling_at,
     completed_at      |-> b.completed_at]

\* cancel_batch and _acancel_batch (which calls cancel_batch with _is_async=False);
\* bid, the batch id, is "" when cancel_batch_data carries none
cancel_batch(api_base, bid, resp, now, uuid4) ==
    LET req == Request("POST", _get_batches_url(api_base) \o "/" \o bid \o "/cancel", Null)
    IN  IF bid = ""
        THEN Outcome(Raise("ValueError", Str("'batch_id' is required to cancel a batch."),
                           Null), <<>>)
        ELSE IF is_raised(resp)
        THEN Outcome(Raise(resp.type, Str("transport"), Null), <<req>>)
        ELSE IF is_error(resp)
        THEN Outcome(raise_mapped_error(resp, "Cancel batch"), <<req>>)
        ELSE IF json_fails(resp)
        THEN Outcome(Raise("JSONDecodeError", Str(text(resp)), Null), <<req>>)
        ELSE IF ~is_batch_obj(json(resp))
        THEN Outcome(Raise("AttributeError", Str("get"), Null), <<req>>)
        ELSE Outcome(Return(Batch(to_litellm_batch(json(resp), now, uuid4))), <<req>>)

(***************************************************************************)
(* VertexAIBatchPrediction: create, retrieve, cancel and list.             *)
(*                                                                         *)
(* The litellm HTTP handlers answer a request with a Response, or raise:   *)
(* an httpx.HTTPStatusError that carries the response, or a transport      *)
(* error that carries none.                                                *)
(***************************************************************************)
HTTPStatusError(resp) == [t |-> "http_status_error", type |-> "HTTPStatusError", response |-> resp]
\* getattr(e, "response", None)
exc_response(e) == IF e.t = "http_status_error" THEN e.response ELSE Null
\* getattr(e, "text", None) or getattr(e, "message", None) or str(e)
exc_status_text(e) ==
    IF e.t = "http_status_error" /\ text(e.response) # "" THEN text(e.response) ELSE e.type

\* body_dict.get("error", {}).get("message", detail) if isinstance(body_dict, dict)
\* else detail, a failure of either step leaving detail
clean_message(detail, body_dict) ==
    IF body_dict = NotJson \/ body_dict.t # "object" THEN Str(detail)
    ELSE IF body_dict.error = Absent THEN Str(detail)
    ELSE IF body_dict.error.t # "object" THEN Str(detail)
    ELSE get_default(body_dict.error, "message", Str(detail))

\* the JSON of a batchPredictionJob
VertexJob(name, state) == [t |-> "job", name |-> name, state |-> state]
is_job(value) == value # NotJson /\ value.t = "job"

\* VertexAIBatchTransformation.transform_vertex_ai_batch_response_to_openai_batch_response
transform_vertex_ai_batch_response_to_openai_batch_response(response) ==
    LET state == response.state
        status == CASE state = "JOB_STATE_SUCCEEDED"  -> Str("completed")
                    [] state = "JOB_STATE_FAILED"     -> Str("failed")
                    [] state = "JOB_STATE_CANCELLING" -> Str("cancelling")
                    [] state = "JOB_STATE_CANCELLED"  -> Str("cancelled")
                    [] state = "JOB_STATE_RUNNING"    -> Str("in_progress")
                    [] OTHER                          -> Str(state)
    IN  [id |-> Str(response.name), object |-> Str("batch"), status |-> status]

\* create_vertex_batch_url(vertex_location, vertex_project), after its "https:"
create_vertex_batch_url_rest ==
    "//us-central1-aiplatform.googleapis.com/v1/projects/my-project/locations/us-central1/batchPredictionJobs"
create_vertex_batch_url == "https:" \o create_vertex_batch_url_rest
\* _check_custom_proxy(api_base, endpoint, url)[1]
_check_custom_proxy(api_base, endpoint, url) ==
    IF api_base = Null THEN url ELSE api_base.v \o api_base.slashes \o ":" \o endpoint

\* raise litellm.BadRequestError(message=clean_message, response=resp_obj, body=body_dict)
bad_request_of_exception(e) ==
    \* json.loads(status_text): the JSON value the text decodes to
    LET body_dict == IF e.t = "http_status_error" THEN json(e.response) ELSE NotJson
    IN  Raise("BadRequestError", clean_message(exc_status_text(e), body_dict), exc_response(e))
bad_request_of_response(response) ==
    Raise("BadRequestError", clean_message(text(response), json(response)), response)

\* the steps after the request of create_batch / retrieve_batch and of their async twins
vertex_batch_result(answer, req) ==
    IF is_raised(answer)
    THEN Outcome(Raise(answer.type, Str(exc_status_text(answer)), exc_response(answer)), <<req>>)
    \* raise Exception(f"Error: {response.status_code} {response.text}")
    ELSE IF answer.status_code # 200
    THEN Outcome(Raise("Exception",
                       Str("Error: " \o ToString(answer.status_code) \o " " \o text(answer)),
                       Null),
                 <<req>>)
    ELSE IF json_fails(answer)
    THEN Outcome(Raise("JSONDecodeError", Str(text(answer)), Null), <<req>>)
    ELSE IF ~is_job(json(answer))
    THEN Outcome(Raise("TypeError", Str("response"), Null), <<req>>)
    ELSE Outcome(Return(transform_vertex_ai_batch_response_to_openai_batch_response(json(answer))),
                 <<req>>)

\* create_batch and _async_create_batch
vertex_create_batch(is_async, api_base, answer) ==
    LET url == _check_custom_proxy(api_base, create_vertex_batch_url_rest, create_vertex_batch_url)
    IN  vertex_batch_result(answer, Request("POST", url, [t |-> "vertex_batch_request"]))

\* retrieve_batch and _async_retrieve_batch
vertex_retrieve_batch(is_async, bid, api_base, answer) ==
    LET url == _check_custom_proxy(api_base, create_vertex_batch_url_rest \o "/" \o bid,
                                   create_vertex_batch_url \o "/" \o bid)
    IN  vertex_batch_result(answer, Request("GET", url, Null))

\* get_resp.raise_for_status() raises: the response is not a 2xx
raise_for_status_raises(resp) == ~(200 <= resp.status_code /\ resp.status_code <= 299)

\* variant: the status of the cancel response is not tested
vertex_cancel_batch_unchecked(bid, api_base, answer, get_answer) ==
    LET cancel_url == create_vertex_batch_url \o "/" \o bid \o ":cancel"
        req == Request("POST", cancel_url, [t |-> "empty"])
    IN  IF is_raised(answer)
        THEN Outcome(bad_request_of_exception(answer), <<req>>)
        ELSE LET r == vertex_retrieve_batch(FALSE, bid, api_base, get_answer)
             IN  Outcome(r.out, <<req>> \o r.http)
\* cancel_batch with _is_async False: POST {id}:cancel, then retrieve_batch
vertex_cancel_batch(bid, api_base, answer, get_answer) ==
    LET cancel_url == create_vertex_batch_url \o "/" \o bid \o ":cancel"
        req == Request("POST", cancel_url, [t |-> "empty"])
    IN  IF is_raised(answer)
        THEN Outcome(bad_request_of_exception(answer), <<req>>)
        ELSE IF answer.status_code \notin {200, 204}
        THEN Outcome(bad_request_of_response(answer), <<req>>)
        ELSE LET r == vertex_retrieve_batch(FALSE, bid, api_base, get_answer)
             IN  Outcome(r.out, <<req>> \o r.http)

\* variant: a cancel POST that raised is issued a second time before giving up
vertex_async_cancel_batch_retried(bid, answer, get_answer) ==
    LET cancel_url == create_vertex_batch_url \o "/" \o bid \o ":cancel"
        req == Request("POST", cancel_url, [t |-> "empty"])
    IN  IF is_raised(answer)
        THEN Outcome(bad_request_of_exception(answer), <<req, req>>)
        ELSE IF answer.status_code \notin {200, 204}
        THEN Outcome(bad_request_of_response(answer), <<req>>)
        ELSE vertex_retrieve_batch(TRUE, bid, Null, get_answer)
\* _async_cancel_batch(cancel_url, headers)
vertex_async_cancel_batch(bid, answer, get_answer) ==
    LET cancel_url == create_vertex_batch_url \o "/" \o bid \o ":cancel"
        req == Request("POST", cancel_url, [t |-> "empty"])
        \* cancel_url[: -len(":cancel")]
        retrieve_url == create_vertex_batch_url \o "/" \o bid
        get_req == Request("GET", retrieve_url, Null)
    IN  IF is_raised(answer)
        THEN Outcome(bad_request_of_exception(answer), <<req>>)
        ELSE IF answer.status_code \notin {200, 204}
        THEN Outcome(bad_request_of_response(answer), <<req>>)
        ELSE IF is_raised(get_answer)
        THEN Outcome(bad_request_of_exception(get_answer), <<req, get_req>>)
        ELSE IF raise_for_status_raises(get_answer)
        THEN Outcome(bad_request_of_exception(HTTPStatusError(get_answer)), <<req, get_req>>)
        ELSE IF json_fails(get_answer)
        THEN Outcome(Raise("JSONDecodeError", Str(text(get_answer)), Null), <<req, get_req>>)
        ELSE IF ~is_job(json(get_answer))
        THEN Outcome(Raise("TypeError", Str("response"), Null), <<req, get_req>>)
        ELSE Outcome(Return(transform_vertex_ai_batch_response_to_openai_batch_response(
                                json(get_answer))),
                     <<req, get_req>>)

\* variant: has_more tells whether the page holds items
list_envelope_has_more_by_items(mapped, page_token) ==
    [object          |-> "list",
     data            |-> mapped,
     has_more        |-> mapped # <<>>,
     first_id        |-> IF mapped # <<>> THEN mapped[1].id ELSE Null,
     last_id         |-> IF mapped # <<>> THEN mapped[Len(mapped)].id ELSE Null,
     next_page_token |-> page_token]
\* the dict list_batches and _async_list_batches return
list_envelope(mapped, page_token) ==
    [object          |-> "list",
     data            |-> mapped,
     has_more        |-> Truthy(page_token),
     first_id        |-> IF mapped # <<>> THEN mapped[1].id ELSE Null,
     last_id         |-> IF mapped # <<>> THEN mapped[Len(mapped)].id ELSE Null,
     next_page_token |-> page_token]

\* list_batches and _async_list_batches
vertex_list_batches(is_async, api_base, after, limit, answer) ==
    LET list_url == _check_custom_proxy(api_base, create_vertex_batch_url_rest,
                                        create_vertex_batch_url)
        \* params = {"pageSize": limit, "pageToken": after}, a None argument adding no key
        params == [pageSize  |-> IF limit = Null THEN Absent ELSE limit,
                   pageToken |-> IF after = Null THEN Absent ELSE after]
        req == [method |-> "GET", url |-> list_url, json |-> Null, params |-> params]
    IN  IF is_raised(answer)
        THEN Outcome(bad_request_of_exception(answer), <<req>>)
        ELSE IF answer.status_code # 200
        THEN Outcome(bad_request_of_response(answer), <<req>>)
        ELSE IF json_fails(answer)
        THEN Outcome(Raise("JSONDecodeError", Str(text(answer)), Null), <<req>>)
        \* data = response.json() or {}: a non-empty JSON array has no get
        ELSE IF json(answer).t = "array" /\ json(answer).items # <<>>
        THEN Outcome(Raise("AttributeError", Str("get"), Null), <<req>>)
        ELSE LET data == json(answer)
                 \* data.get("batchPredictionJobs", []) or []
                 items ==
                     IF data.t # "jobs_page" THEN <<>>
                     ELSE Or(get_default(data, "batchPredictionJobs", JArray(<<>>)),
                             JArray(<<>>)).items
                 \* data.get("nextPageToken")
                 page_token == IF data.t # "jobs_page" THEN Null
                               ELSE get(data, "nextPageToken")
                 mapped == [i \in 1..Len(items) |->
                               transform_vertex_ai_batch_response_to_openai_batch_response(items[i])]
             IN  Outcome(Return(list_envelope(mapped, page_token)), <<req>>)

(***************************************************************************)
(* One call of one adapter operation: arg is the call, raw the answers of  *)
(* the transport the call consumed, http the requests it issued and out    *)
(* its outcome.                                                            *)
(***************************************************************************)

AnswerStatuses == {200, 204, 302, 400, 404, 429, 500, 503}
\* what the transport answers an Anthropic request with
AnthropicAnswers ==
    {TransportError("ConnectTimeout")}
    \cup {Response(s, b) :
            s \in AnswerStatuses,
            b \in {CreatedBody,
                   JsonBody("{\"data\": [{\"id\": \"msgbatch_01\", ...}], \"has_more\": true}",
                            ListPage(JArray(<<CreatedPayload>>), JBool(TRUE),
                                     Str("msgbatch_01"), Str("msgbatch_01"))),
                   JsonBody("{\"error\": {\"message\": \"not found\"}}", ErrorJson("not found")),
                   TextBody("")}}

\* what the litellm HTTP handler answers a Vertex request with
VertexAnswers ==
    LET name == "projects/my-project/locations/us-central1/batchPredictionJobs/123"
        job == VertexJob(name, "JOB_STATE_RUNNING")
        bodies ==
            {JsonBody("{\"name\": \".../batchPredictionJobs/123\", \"state\": \"JOB_STATE_RUNNING\"}",
                      job),
             JsonBody("{\"batchPredictionJobs\": [{...}], \"nextPageToken\": \"tok-2\"}",
                      [t |-> "jobs_page", batchPredictionJobs |-> JArray(<<job>>),
                       nextPageToken |-> Str("tok-2")]),
             JsonBody("{\"error\": {\"message\": \"not found\"}}", ErrorJson("not found")),
             TextBody("")}
        responses == {Response(s, b) : s \in AnswerStatuses, b \in bodies}
    IN  {TransportError("ConnectTimeout")}
        \cup responses
        \cup {HTTPStatusError(r) : r \in {x \in responses : x.status_code >= 400}}

\* the pages a 200 answer to the list request can carry: batchPredictionJobs
\* missing, null or an array of up to two jobs, nextPageToken missing, empty or a token
VertexPages ==
    LET job(id, state) ==
            VertexJob("projects/my-project/locations/us-central1/batchPredictionJobs/" \o id,
                      state)
        jobs == {job("123", "JOB_STATE_RUNNING"), job("456", "JOB_STATE_SUCCEEDED")}
    IN  {Response(200, JsonBody("{\"batchPredictionJobs\": ..., \"nextPageToken\": ...}",
                                [t |-> "jobs_page", batchPredictionJobs |-> items,
                                 nextPageToken |-> token])) :
            items \in {Absent, Null} \cup {JArray(s) : s \in UNION {[1..n -> jobs] : n \in 0..2}},
            token \in {Absent, Str(""), Str("tok-2")}}

InitAdapter ==
    /\ raw = <<>>
    /\ batch = NoBatch
    /\ calls = 0
    \* max_retries is accepted by every operation and read by none; after and
    \* limit are the page token and the page size a caller of list passes (to the
    \* Anthropic adapter inside litellm_params, which list_batches does not read)
    /\ arg \in [provider : {"anthropic", "vertex_ai"},
                operation : {"create", "retrieve", "cancel", "list"},
                is_async : BOOLEAN,
                api_base : {Null, [v |-> "https://proxy.example.com", slashes |-> ""],
                            [v |-> "https://proxy.example.com", slashes |-> "//"]},
                max_retries : {Null, Num(3)},
                after : {Null, Str("tok-1")},
                limit : {Null, Num(2)}]
    /\ out = Idle
    /\ http = <<>>

\* the call ends with outcome r, having consumed the first Len(r.http) answers
Finish(r, answers) ==
    /\ out' = r.out
    /\ http' = r.http
    /\ raw' = SubSeq(answers, 1, Len(r.http))
    /\ UNCHANGED <<batch, calls, arg>>

AnthropicCreate ==
    /\ out = Idle /\ arg.provider = "anthropic" /\ arg.operation = "create"
    /\ \E answer \in AnthropicAnswers, now \in Clock, uuid4 \in UUIDs :
          \* input_file_id holds one usable line
          LET input_file_id ==
                  JsonlContent(<<LineAt([kind |-> "object", cid |-> Absent, body |-> "dict"], 1)>>)
          IN  Finish(create_batch(arg.api_base, input_file_id, answer, now, uuid4), <<answer>>)
AnthropicRetrieve ==
    /\ out = Idle /\ arg.provider = "anthropic" /\ arg.operation = "retrieve"
    /\ \E answer \in AnthropicAnswers, now \in Clock, uuid4 \in UUIDs :
          Finish(retrieve_batch(arg.api_base, "msgbatch_01", answer, now, uuid4), <<answer>>)
AnthropicList ==
    /\ out = Idle /\ arg.provider = "anthropic" /\ arg.operation = "list"
    /\ \E answer \in AnthropicAnswers, now \in Clock, uuid4 \in UUIDs :
          Finish(list_batches(arg.api_base, answer, now, uuid4), <<answer>>)
AnthropicCancel ==
    /\ out = Idle /\ arg.provider = "anthropic" /\ arg.operation = "cancel"
    /\ \E answer \in AnthropicAnswers, now \in Clock, uuid4 \in UUIDs :
          Finish(cancel_batch(arg.api_base, "msgbatch_01", answer, now, uuid4), <<answer>>)
VertexCreate ==
    /\ out = Idle /\ arg.provider = "vertex_ai" /\ arg.operation = "create"
    /\ \E answer \in VertexAnswers :
          Finish(vertex_create_batch(arg.is_async, arg.api_base, answer), <<answer>>)
VertexRetrieve ==
    /\ out = Idle /\ arg.provider = "vertex_ai" /\ arg.operation = "retrieve"
    /\ \E answer \in VertexAnswers :
          Finish(vertex_retrieve_batch(arg.is_async, "123", arg.api_base, answer), <<answer>>)
VertexCancel ==
    /\ out = Idle /\ arg.provider = "vertex_ai" /\ arg.operation = "cancel"
    /\ \E answer \in VertexAnswers, get_answer \in VertexAnswers :
          Finish(IF arg.is_async THEN vertex_async_cancel_batch("123", answer, get_answer)
                 ELSE vertex_cancel_batch("123", arg.api_base, answer, get_answer),
                 <<answer, get_answer>>)
VertexList ==
    /\ out = Idle /\ arg.provider = "vertex_ai" /\ arg.operation = "list"
    /\ \E answer \in VertexAnswers \cup VertexPages :
          Finish(vertex_list_batches(arg.is_async, arg.api_base, arg.after, arg.limit, answer),
                 <<answer>>)

NextAdapter ==
    \/ AnthropicCreate \/ AnthropicRetrieve \/ AnthropicList \/ AnthropicCancel
    \/ VertexCreate \/ VertexRetrieve \/ VertexCancel \/ VertexList

SpecAdapter == InitAdapter /\ [][NextAdapter]_vars

(***************************************************************************)
(* C17                                                                     *)
(***************************************************************************)
\* the HTTP responses the call received, returned or carried by an HTTPStatusError
ReceivedResponses ==
    {IF is_raised(raw[i]) THEN raw[i].response ELSE raw[i] :
        i \in {j \in 1..Len(raw) : ~is_raised(raw[j]) \/ raw[j].t = "http_status_error"}}
Non2xx(resp) == ~(200 <= resp.status_code /\ resp.status_code <= 299)

\* C17: in every operation of both adapters, in both modes, a non-2xx response
\* never yields a batch: the call raises an error whose class is the entry of the
\* Error Mapper table for the response's status and which carries that response.
C17_Non2xxRaisesMappedKind ==
    (out # Idle) =>
        \A resp \in ReceivedResponses :
            Non2xx(resp) =>
                /\ out.t = "raise"
                /\ out.type = KindTable(resp.status_code)
                /\ out.response # Null
                /\ out.response.status_code = resp.status_code

(***************************************************************************)
(* The life of one message batch: raw is the payload the vendor holds for  *)
(* it, batch the batch the last successful call returned, arg the batch    *)
(* the successful call before that one returned, out and http the outcome  *)
(* and the requests of the last call.                                      *)
(*                                                                         *)
(* The vendor runs the state machine of the message batches API: the       *)
(* requests of an in_progress or canceling batch end one by one, the batch *)
(* ends when none is processing, and an ended batch never changes.         *)
(***************************************************************************)

InitLifecycle ==
    /\ raw = [CreatedPayload EXCEPT
                 \* the batch has MaxCount + 1 requests
                 !.request_counts = [ZeroCounts EXCEPT !["processing"] = Num(MaxCount + 1)]]
    /\ batch = NoBatch
    /\ calls = 0
    /\ arg = NoBatch
    /\ out = Idle
    /\ http = <<>>

\* one request of the batch ends
VendorRequestEnds ==
    /\ raw.processing_status \in {Str("in_progress"), Str("canceling")}
    /\ raw.request_counts["processing"].v > 0
    /\ \E k \in {"succeeded", "errored", "expired", "canceled"} :
          /\ k = "canceled" => raw.processing_status = Str("canceling")
          /\ raw' = [raw EXCEPT
                        !.request_counts["processing"] = Num(@.v - 1),
                        !.request_counts[k] = Num(@.v + 1)]
    /\ UNCHANGED <<batch, calls, arg, out, http>>

\* the batch ends: no request is processing any more
VendorBatchEnds ==
    /\ raw.processing_status \in {Str("in_progress"), Str("canceling")}
    /\ raw.request_counts["processing"].v = 0
    /\ raw' = [raw EXCEPT
                  !.processing_status = Str("ended"),
                  !.ended_at = IsoEnded,
                  !.results_url =
                      Str("https://api.anthropic.com/v1/messages/batches/msgbatch_01/results")]
    /\ UNCHANGED <<batch, calls, arg, out, http>>

\* what the vendor may answer to a request about the batch whose payload is payload
VendorAnswers(body) ==
    {Response(200, body),
     Response(429, JsonBody("{\"error\": {\"message\": \"overloaded\"}}", ErrorJson("overloaded"))),
     TransportError("ConnectTimeout")}

\* the call ended with outcome r, returning batch b when it returned
Returned(r, b) ==
    /\ out' = r.out
    /\ http' = r.http
    /\ calls' = calls + 1
    /\ IF r.out.t = "return"
       THEN batch' = b /\ arg' = batch
       ELSE UNCHANGED <<batch, arg>>

RetrieveBatch ==
    /\ calls < MaxCalls
    /\ \E answer \in VendorAnswers(JsonBody("{\"id\": \"msgbatch_01\", ...}", raw)),
          now \in Clock, uuid4 \in UUIDs :
          LET r == retrieve_batch(Null, "msgbatch_01", answer, now, uuid4)
          IN  Returned(r, r.out.value)
    /\ UNCHANGED raw

ListBatches ==
    /\ calls < MaxCalls
    /\ \E answer \in VendorAnswers(
                        JsonBody("{\"data\": [{\"id\": \"msgbatch_01\", ...}], ...}",
                                 ListPage(JArray(<<raw>>), JBool(FALSE), raw.id, raw.id))),
          now \in Clock, uuid4 \in UUIDs :
          LET r == list_batches(Null, answer, now, uuid4)
          IN  Returned(r, r.out.value.data[1])
    /\ UNCHANGED raw

\* the payload after the vendor took a cancel request
Canceled(payload) ==
    IF payload.processing_status = Str("in_progress")
    THEN [payload EXCEPT !.processing_status = Str("canceling"),
                         !.cancel_initiated_at = IsoCancel]
    ELSE payload

CancelBatch ==
    /\ calls < MaxCalls
    /\ \E answer \in VendorAnswers(JsonBody("{\"id\": \"msgbatch_01\", ...}", Canceled(raw))),
          now \in Clock, uuid4 \in UUIDs :
          LET r == cancel_batch(Null, "msgbatch_01", answer, now, uuid4)
          IN  /\ Returned(r, r.out.value)
              /\ raw' = IF is_raised(answer) \/ is_error(answer) THEN raw
                        ELSE Canceled(raw)

NextLifecycle ==
    \/ VendorRequestEnds \/ VendorBatchEnds
    \/ RetrieveBatch \/ ListBatches \/ CancelBatch

SpecLifecycle == InitLifecycle /\ [][NextLifecycle]_vars

(***************************************************************************)
(* C11                                                                     *)
(***************************************************************************)
\* what the caller sees of a batch: status, counters and timestamps
Observed(b) ==
    [status         |-> b.status,
     request_counts |-> b.request_counts,
     created_at     |-> b.created_at,
     in_progress_at |-> b.in_progress_at,
     finalizing_at  |-> b.finalizing_at,
     cancelling_at  |-> b.cancelling_at,
     completed_at   |-> b.completed_at,
     failed_at      |-> b.failed_at,
     expired_at     |-> b.expired_at,
     cancelled_at   |-> b.cancelled_at,
     expires_at     |-> b.expires_at]

Repr(value) == [t |-> "repr", of |-> value]
\* an error message as text: the text, whether its stripped form starts with
\* "[" or "{", and the value json.loads gives for it (NotJson when it raises)
ErrorText(text_, starts_with_bracket, value) ==
    [t |-> "text", text |-> text_, starts_with_bracket |-> starts_with_bracket, value |-> value]

\* variant: an error object without message is not answered with a default
_parse_lodash_error_no_default(response_json) ==
    IF /\ response_json.t = "array" /\ Len(response_json.items) > 0
       /\ response_json.items[1].t = "object"
       /\ response_json.items[1].errorMessage # Absent
    THEN response_json.items[1].errorMessage
    ELSE IF response_json.t = "object" /\ response_json.errorMessage # Absent
    THEN response_json.errorMessage
    ELSE IF /\ response_json.t = "object"
            /\ response_json.error # Absent
            /\ response_json.error.t = "object"
            /\ response_json.error.message # Absent
    THEN response_json.error.message
    ELSE IF response_json.t = "object" /\ response_json.error.t = "str"
    THEN response_json.error
    ELSE Repr(response_json)
_parse_lodash_error(response_json) ==
    IF /\ response_json.t = "array" /\ Len(response_json.items) > 0
       /\ response_json.items[1].t = "object"
       /\ response_json.items[1].errorMessage # Absent
    THEN response_json.items[1].errorMessage
    ELSE IF response_json.t = "object" /\ response_json.errorMessage # Absent
    THEN response_json.errorMessage
    ELSE IF response_json.t = "object"
    THEN LET error_obj == get_default(response_json, "error", JObject(Absent, Absent, Absent))
         IN  IF error_obj.t = "object"
             THEN get_default(error_obj, "message", Str("Unknown error"))
             ELSE IF error_obj.t = "str" THEN error_obj
             ELSE Repr(response_json)
    ELSE Repr(response_json)

_parse_lodash_error_from_string(error_message) ==
    IF error_message.starts_with_bracket
    THEN IF error_message.value = NotJson THEN Str(error_message.text)
         ELSE _parse_lodash_error(error_message.value)
    ELSE Str(error_message.text)

\* JSON objects with and without errorMessage and error
ErrorObjects ==
    {JObject(em, e, Absent) :
        em \in {Absent, Null, Str("top")},
        e \in {Absent, Null, Str("plain"), Num(5), JArray(<<>>), JObject(Absent, Absent, Absent),
               JObject(Absent, Absent, Str("inner")), JObject(Str("nested"), Absent, Absent)}}
\* JSON arrays of up to two elements
ErrorArrays ==
    LET elements ==
            {JObject(Str("first"), Absent, Absent), JObject(Str("second"), Absent, Absent),
             JObject(Absent, JObject(Absent, Absent, Str("inner")), Absent), Str("x")}
    IN  {JArray(items) : items \in UNION {[1..n -> elements] : n \in 0..2}}
ErrorJsonValues == ErrorObjects \cup ErrorArrays \cup {Str("text"), Num(5), Null}
ErrorTexts ==
    {ErrorText("json", TRUE, v) : v \in ErrorObjects \cup ErrorArrays}
    \cup {ErrorText("Test error", FALSE, NotJson), ErrorText("{not json", TRUE, NotJson),
          ErrorText("[1, 2", TRUE, NotJson), ErrorText("\"quoted\"", FALSE, Str("quoted")),
          ErrorText("", FALSE, NotJson)}

InitLodash ==
    /\ raw = Idle
    /\ batch = NoBatch
    /\ calls = 0
    /\ arg \in ErrorJsonValues \cup ErrorTexts
    /\ out = Idle
    /\ http = <<>>

\* a call of _parse_lodash_error(arg)
ParseLodashError ==
    /\ out = Idle
    /\ arg \in ErrorJsonValues
    /\ out' = Return(_parse_lodash_error(arg))
    /\ UNCHANGED <<raw, batch, calls, arg, http>>

\* a call of _parse_lodash_error_from_string(arg)
ParseLodashErrorFromString ==
    /\ out = Idle
    /\ arg \in ErrorTexts
    /\ out' = Return(_parse_lodash_error_from_string(arg))
    /\ UNCHANGED <<raw, batch, calls, arg, http>>

NextLodash == ParseLodashError \/ ParseLodashErrorFromString

SpecLodash == InitLodash /\ [][NextLodash]_vars

(***************************************************************************)
(* C18                                                                     *)
(***************************************************************************)
ParsedJson == out # Idle /\ arg.t # "text"
ParsedText == out # Idle /\ arg.t = "text"
HasKey(v, k) == v.t = "object" /\ v[k] # Absent
\* strategy (1): a non-empty array whose first element has errorMessage
ArrayStrategy(v) == v.t = "array" /\ v.items # <<>> /\ HasKey(v.items[1], "errorMessage")
\* strategy (2): {error: {message}}
ObjectStrategy(v) == HasKey(v, "error") /\ HasKey(v.error, "message")
\* strategy (3): {error: <string>}
StringStrategy(v) == HasKey(v, "error") /\ v.error.t = "str"

\* C18 as stated: the message is built by the first strategy that succeeds among
\* (1), (2), (3) and (4) the text of the response, a strategy that does not apply
\* (an error object without message) falling through to the next one.
C18_FirstStrategyFallsThrough ==
    ParsedJson =>
        /\ out.t = "return"
        /\ out.value = IF ArrayStrategy(arg) THEN arg.items[1].errorMessage
                       ELSE IF ObjectStrategy(arg) THEN arg.error.message
                       ELSE IF StringStrategy(arg) THEN arg.error
                       ELSE Repr(arg)

\* the message of a parsed value, by the first rule that applies
MessageRule(v) ==
    CASE ArrayStrategy(v) -> v.items[1].errorMessage
      [] ~ArrayStrategy(v) /\ HasKey(v, "errorMessage") -> v.errorMessage
      [] v.t = "object" /\ v.errorMessage = Absent /\ v.error = Absent -> Str("Unknown error")
      [] v.t = "object" /\ v.errorMessage = Absent /\ HasKey(v, "error") /\ v.error.t = "object" ->
            IF HasKey(v.error, "message") THEN v.error.message ELSE Str("Unknown error")
      [] v.t = "object" /\ v.errorMessage = Absent /\ StringStrategy(v) -> v.error
      [] OTHER -> Repr(v)

\* C18 (amended): _parse_lodash_error never raises and answers by the first rule that
\* applies: the errorMessage of the first element of a non-empty array; the
\* errorMessage of the object itself; for an object whose error is an object or is
\* missing, error.message or else "Unknown error"; the error string; in every
\* other case the string form of the parsed value.  _parse_lodash_error_from_string
\* applies these rules to a text that starts with "[" or "{" and parses, and
\* returns any other text unchanged.
C18_FirstRuleOrDefault ==
    /\ ParsedJson => out = Return(MessageRule(arg))
    /\ ParsedText =>
          out = Return(IF arg.starts_with_bracket /\ arg.value # NotJson
                       THEN MessageRule(arg.value) ELSE Str(arg.text))

\* {"error": {}} was parsed: the answer is the default, not the text of the response
C18_Witness ==
    /\ ParsedJson
    /\ arg = JObject(Absent, JObject(Absent, Absent, Absent), Absent)
    /\ out = Return(Str("Unknown error"))

(***************************************************************************)
(* Result Locator: VertexAIFilesHandler.get_results_content.               *)
(*                                                                         *)
(* raw is the listing of the bucket under the prefix, arg the file_id.     *)
(* A path or object name is a stem followed by a suffix, the suffixes      *)
(* being the endings the code tests.                                       *)
(***************************************************************************)
\* number of objects under the prefix
MaxItems == 3

Path(stem, suffix) == [stem |-> stem, suffix |-> suffix]
\* s.endswith(suffix), for the suffixes of the modelled names
endswith(s, suffix) ==
    \/ s.suffix = suffix
    \/ suffix = ".jsonl" /\ s.suffix \in {"predictions.jsonl", "input.jsonl", "other.jsonl"}
\* gs://<bucket>/<object_path>, or another URL
GsUri(bucket, object_path) == [scheme |-> "gs", bucket |-> bucket, object_path |-> object_path]
\* _parse_gs_uri: None, or (bucket, object_path)
_parse_gs_uri(gs_uri) ==
    IF gs_uri.scheme # "gs" THEN Null
    ELSE [bucket |-> gs_uri.bucket, object_path |-> gs_uri.object_path]

\* it.get("name", "")
item_name(it) == get_default(it, "name", Path("", ""))
\* GET https://storage.googleapis.com/storage/v1/b/{bucket}/o?prefix={quote(prefix)}
list_request(bucket, prefix) ==
    Request("GET", [api |-> "storage/v1/b/o", bucket |-> bucket, prefix |-> prefix], Null)
\* GET https://storage.googleapis.com/storage/v1/b/{bucket}/o/{quote(object_name)}?alt=media
download_request(bucket, object_name) ==
    Request("GET", [api |-> "storage/v1/b/o/alt=media", bucket |-> bucket,
                    object_name |-> object_name], Null)
\* the request raised, or resp.raise_for_status() raises
request_fails(answer) == is_raised(answer) \/ raise_for_status_raises(answer)
request_error(answer) ==
    IF is_raised(answer) THEN Raise(answer.type, Str(answer.type), exc_response(answer))
    ELSE Raise("HTTPStatusError", Str(text(answer)), answer)

\* the indexes of the items with a name that is not "" and does not end with
\* input.jsonl
not_input_items(items) ==
    {i \in 1..Len(items) :
        item_name(items[i]) # Path("", "") /\ ~endswith(item_name(items[i]), "input.jsonl")}
Min(S) == CHOOSE i \in S : \A j \in S : i <= j

\* variant: predictions.jsonl is not preferred
selected_name_no_preference(items) ==
    IF not_input_items(items) # {}
    THEN item_name(items[Min(not_input_items(items))])
    ELSE get(items[1], "name")
\* the two loops and the fallback of get_results_content
selected_name(items) ==
    \* the indexes of the items whose name ends with predictions.jsonl
    LET predictions_items ==
            {i \in 1..Len(items) : endswith(item_name(items[i]), "predictions.jsonl")}
    IN
    IF predictions_items # {}
    THEN item_name(items[Min(predictions_items)])
    ELSE IF not_input_items(items) # {}
    THEN item_name(items[Min(not_input_items(items))])
    ELSE get(items[1], "name")

\* variant: an empty listing is not tested for
no_items_never(items) == FALSE
\* not items
no_items(items) == items = <<>>

\* _download_gcs_object_raw and return _Bin(resp)
download(bucket, object_name, answer, requests) ==
    LET req == download_request(bucket, object_name)
    IN  IF request_fails(answer) THEN Outcome(request_error(answer), requests \o <<req>>)
        ELSE Outcome(Return([t |-> "bin", response |-> answer]), requests \o <<req>>)

get_results_content(file_id, list_answer, download_answer) ==
    LET parsed == _parse_gs_uri(file_id)
    IN  IF parsed = Null
        THEN Outcome(Raise("ValueError", Str("Expected gs:// URI for vertex_ai results"), Null),
                     <<>>)
        ELSE IF endswith(parsed.object_path, ".jsonl")
        THEN download(parsed.bucket, parsed.object_path, download_answer, <<>>)
        ELSE LET req == list_request(parsed.bucket, parsed.object_path)
             IN  IF request_fails(list_answer)
                 THEN Outcome(request_error(list_answer), <<req>>)
                 ELSE LET items == get_default(json(list_answer), "items", JArray(<<>>)).items
                      IN  IF no_items(items)
                          THEN Outcome(Raise("HTTPStatusError",
                                             Str("No output files under prefix"),
                                             Response(503, TextBody(""))),
                                       <<req>>)
                          \* items[0] of an empty list
                          ELSE IF items = <<>>
                          THEN Outcome(Raise("IndexError", Str("list index out of range"), Null),
                                       <<req>>)
                          ELSE download(parsed.bucket, selected_name(items), download_answer,
                                        <<req>>)

\* what GCS answers the listing request with: the items {"name": ...} of up to
\* MaxItems objects, no two of the same name ("items" is left out when nothing
\* matches), or a failure
ListAnswers ==
    LET names ==
            {Path("out/", "predictions.jsonl"), Path("out/sub/", "predictions.jsonl"),
             Path("out/", "input.jsonl"), Path("out/my", "input.jsonl"),
             Path("out/", "other.jsonl"), Path("out/errors", ".txt")}
        listings ==
            {items \in UNION {[1..n -> {[name |-> nm] : nm \in names}] : n \in 0..MaxItems} :
                \A i, j \in 1..Len(items) : items[i] = items[j] => i = j}
        body(items) ==
            [t |-> "listing", items |-> IF items = <<>> THEN Absent ELSE JArray(items)]
    IN  {Response(200, JsonBody("{\"items\": [...]}", body(items))) : items \in listings}
        \cup {Response(403, TextBody("Forbidden")), TransportError("ConnectTimeout")}

(***************************************************************************)
(* AnthropicFilesHandler.file_content.                                     *)
(*                                                                         *)
(* A file_id is the string text; scheme tells what it starts with         *)
(* ("http" for http://, "https" for https://, "msgbatch" for msgbatch_,    *)
(* "other" for anything else).  A caller-supplied api_base is the string v *)
(* followed by the string slashes, which holds only "/" characters.        *)
(***************************************************************************)
\* variant: every file_id is resolved against the base
_build_url_on_base(file_id, api_base) ==
    LET base == IF api_base = Null THEN "https://api.anthropic.com" ELSE api_base.v
    IN  base \o "/v1/messages/batches/" \o file_id.text \o "/results"
_build_url(file_id, api_base) ==
    IF file_id.scheme \in {"http", "https"} THEN file_id.text
    \* base = (api_base or self.default_api_base).rstrip("/")
    ELSE LET base == IF api_base = Null THEN "https://api.anthropic.com" ELSE api_base.v
         IN  IF file_id.scheme = "msgbatch"
             THEN base \o "/v1/messages/batches/" \o file_id.text \o "/results"
             ELSE file_id.text

\* file_content; api_key is the key _build_headers resolves (the argument, litellm's
\* settings or the environment), Null when there is none
file_content(file_id, api_base, api_key, answer) ==
    LET req == Request("GET", _build_url(file_id, api_base), Null)
    IN  IF api_key = Null
        THEN Outcome(Raise("AuthenticationError",
                           Str("Missing ANTHROPIC_API_KEY for retrieving file content"), Null),
                     <<>>)
        ELSE IF is_raised(answer)
        THEN Outcome(Raise(answer.type, Str(answer.type), Null), <<req>>)
        ELSE IF raise_for_status_raises(answer)
        THEN Outcome(Raise("APIError", Str("Anthropic file content fetch failed"), answer),
                     <<req>>)
        ELSE Outcome(Return([t |-> "bin", response |-> answer]), <<req>>)

InitLocator ==
    /\ raw = <<>>
    /\ batch = NoBatch
    /\ calls = 0
    \* the file_id of a get_results_content call (a prefix, the bucket root, an
    \* object, or no gs:// URI), or the arguments of a file_content call
    /\ arg \in {GsUri("bucket", Path("out/", "")), GsUri("bucket", Path("", "")),
                GsUri("bucket", Path("out/", "predictions.jsonl")),
                [scheme |-> "https", url |-> "https://example.com/results.jsonl"]}
               \cup
               {[scheme |-> f[1], text |-> f[2], api_base |-> b, api_key |-> k] :
                   f \in {<<"https", "https://files.example.com/results.jsonl">>,
                          <<"http", "http://files.example.com/results">>,
                          <<"msgbatch", "msgbatch_01">>,
                          <<"other", "gs://bucket/out/predictions.jsonl">>},
                   b \in {Null, [v |-> "https://proxy.example.com", slashes |-> ""],
                          [v |-> "https://proxy.example.com", slashes |-> "//"]},
                   k \in {Null, Str("sk-ant")}}
    /\ out = Idle
    /\ http = <<>>

\* a call of file_content(arg); raw becomes the answer it consumed
FileContent ==
    /\ out = Idle
    /\ "api_key" \in DOMAIN arg
    /\ \E answer \in {Response(200, TextBody("{\"custom_id\": \"req-1\"}")),
                       Response(302, TextBody("")), Response(404, TextBody("Not Found")),
                       TransportError("ReadTimeout")} :
          Finish(file_content(arg, arg.api_base, arg.api_key, answer), <<answer>>)

\* a call of get_results_content(arg); raw becomes the answers it consumed
GetResultsContent ==
    /\ out = Idle
    /\ "api_key" \notin DOMAIN arg
    /\ \E list_answer \in ListAnswers,
          download_answer \in {Response(200, TextBody("{\"prediction\": 1}")),
                               Response(404, TextBody("Not Found")),
                               TransportError("ReadTimeout")} :
          LET r == get_results_content(arg, list_answer, download_answer)
              direct == arg.scheme = "gs" /\ endswith(arg.object_path, ".jsonl")
          IN  Finish(r, IF direct THEN <<download_answer>> ELSE <<list_answer, download_answer>>)

NextLocator == GetResultsContent \/ FileContent

SpecLocator == InitLocator /\ [][NextLocator]_vars

(***************************************************************************)
(* C19, C20                                                                *)
(***************************************************************************)
\* arg points to a prefix and the listing request was answered with a listing
PrefixListed ==
    /\ out # Idle
    /\ arg.scheme = "gs"
    /\ arg.object_path.suffix \notin {"predictions.jsonl", "input.jsonl", "other.jsonl"}
    /\ Len(raw) >= 1
    /\ ~is_raised(raw[1]) /\ raw[1].status_code = 200
\* the objects the listing names, in listing order
ListedNames ==
    LET v == raw[1].body.value
    IN  IF v.items = Absent THEN <<>> ELSE [i \in 1..Len(v.items.items) |-> v.items.items[i].name]
FirstWith(names, suffix, wanted) ==
    LET S == {i \in 1..Len(names) : (names[i].suffix = suffix) = wanted}
    IN  IF S = {} THEN 0 ELSE CHOOSE i \in S : \A j \in S : i <= j
\* the object the precedence selects
Chosen(names) ==
    IF FirstWith(names, "predictions.jsonl", TRUE) # 0
    THEN names[FirstWith(names, "predictions.jsonl", TRUE)]
    ELSE IF FirstWith(names, "input.jsonl", FALSE) # 0
    THEN names[FirstWith(names, "input.jsonl", FALSE)]
    ELSE names[1]

\* C19: for a prefix pointer with a non-empty listing, exactly one download is
\* issued, for the first object whose name ends with predictions.jsonl, else the
\* first one whose name does not end with input.jsonl, else the first listed one;
\* its content is what is returned.
C19_DownloadsChosenObject ==
    (PrefixListed /\ ListedNames # <<>>) =>
        /\ Len(http) = 2
        /\ http[2] = download_request(arg.bucket, Chosen(ListedNames))
        /\ out.t = "return" => out.value.response = raw[2]

\* the listing [input.jsonl, predictions.jsonl, other.jsonl] selects predictions.jsonl
C19_Witness ==
    /\ PrefixListed
    /\ ListedNames = <<Path("out/", "input.jsonl"), Path("out/", "predictions.jsonl"),
                       Path("out/", "other.jsonl")>>
    /\ http[2].url.object_name = Path("out/", "predictions.jsonl")
    /\ out.t = "return"

AnthropicLocator == "api_key" \in DOMAIN arg
\* the pointer is an http/https URL, or a gs:// path that ends with .jsonl
DirectPointer ==
    \/ arg.scheme \in {"http", "https"}
    \/ arg.scheme = "gs" /\ endswith(arg.object_path, ".jsonl")
\* the one request that fetches exactly the pointer
DirectFetch ==
    IF arg.scheme = "gs" THEN download_request(arg.bucket, arg.object_path)
    ELSE Request("GET", IF AnthropicLocator THEN arg.text ELSE arg.url, Null)
\* the call ended, and credentials were at hand when the handler needs them
LocatorCalled == out # Idle /\ (AnthropicLocator => arg.api_key # Null)

CancelCalled == out # Idle /\ arg.operation = "cancel"
\* the cancel request raised, or was answered with a status that is not a 2xx
CancelFailed == is_raised(raw[1]) \/ raise_for_status_raises(raw[1])
\* the batch the adapter maps the answer to
MappedFrom(answer) ==
    IF arg.provider = "vertex_ai"
    THEN {transform_vertex_ai_batch_response_to_openai_batch_response(json(answer))}
    ELSE {Batch(to_litellm_batch(json(answer), now, uuid4)) : now \in Clock, uuid4 \in UUIDs}

\* C22 as stated: in every adapter a cancel that succeeds issued exactly one POST
\* and then exactly one GET and returns the batch mapped from the answer to the
\* GET; a cancel whose POST failed or got an error status issued no GET.
C22_CancelThenConfirm ==
    CancelCalled =>
        /\ http[1].method = "POST"
        /\ out.t = "return" =>
              /\ Len(http) = 2 /\ http[2].method = "GET"
              /\ out.value \in MappedFrom(raw[2])
        /\ CancelFailed => Len(http) = 1

\* C22 amended: the Vertex adapter behaves as stated, the GET reading batch 123
\* that the POST cancelled; the Anthropic adapter issues the cancel POST only and
\* returns the batch mapped from the answer to that POST.
C22_CancelThenConfirmVertexOnly ==
    CancelCalled =>
        /\ CancelFailed => Len(http) = 1
        /\ http[1].method = "POST"
        /\ IF arg.provider = "vertex_ai"
           THEN /\ http[1].url = create_vertex_batch_url \o "/123:cancel"
                /\ out.t = "return" =>
                      /\ Len(http) = 2
                      /\ http[2] = Request("GET",
                                           _check_custom_proxy(
                                               IF arg.is_async THEN Null ELSE arg.api_base,
                                               create_vertex_batch_url_rest \o "/123",
                                               create_vertex_batch_url \o "/123"),
                                           Null)
                      /\ out.value \in MappedFrom(raw[2])
           ELSE /\ http = <<Request("POST", _get_batches_url(arg.api_base)
                                                \o "/msgbatch_01/cancel", Null)>>
                /\ out.t = "return" => out.value \in MappedFrom(raw[1])

\* a non-blocking Vertex cancel was answered 204, read the batch and returned it
C22_Witness ==
    /\ CancelCalled /\ arg.provider = "vertex_ai" /\ arg.is_async
    /\ ~CancelFailed /\ raw[1].status_code = 204
    /\ Len(http) = 2 /\ http[1].method = "POST" /\ http[2].method = "GET"
    /\ out.t = "return" /\ out.value.status = Str("in_progress")

(***************************************************************************)
(* C23                                                                     *)
(***************************************************************************)
\* the outcomes the call arg has in the given mode when the transport gives the
\* answers of raw (an answer the call did not wait for may be any answer)
Replayed(is_async) ==
    LET later(answers) == IF Len(raw) >= 2 THEN {raw[2]} ELSE answers
    IN  IF arg.provider = "anthropic"
        THEN {CASE arg.operation = "create" ->
                       create_batch(arg.api_base, JsonlContent(<<LineAt(
                           [kind |-> "object", cid |-> Absent, body |-> "dict"], 1)>>),
                           raw[1], now, uuid4)
                [] arg.operation = "retrieve" ->
                       retrieve_batch(arg.api_base, "msgbatch_01", raw[1], now, uuid4)
                [] arg.operation = "list" -> list_batches(arg.api_base, raw[1], now, uuid4)
                [] arg.operation = "cancel" ->
                       cancel_batch(arg.api_base, "msgbatch_01", raw[1], now, uuid4) :
              now \in Clock, uuid4 \in UUIDs}
        ELSE {CASE arg.operation = "create" ->
                       vertex_create_batch(is_async, arg.api_base, raw[1])
                [] arg.operation = "retrieve" ->
                       vertex_retrieve_batch(is_async, "123", arg.api_base, raw[1])
                [] arg.operation = "list" ->
                       vertex_list_batches(is_async, arg.api_base, arg.after, arg.limit, raw[1])
                [] arg.operation = "cancel" ->
                       IF is_async THEN vertex_async_cancel_batch("123", raw[1], get_answer)
                       ELSE vertex_cancel_batch("123", arg.api_base, raw[1], get_answer) :
              get_answer \in later(VertexAnswers)}
\* the same HTTP requests (method and URL) in the same order
SameRequests(a, b) ==
    /\ Len(a) = Len(b)
    /\ \A i \in 1..Len(a) : a[i].method = b[i].method /\ a[i].url = b[i].url
\* the same result, or an error of the same kind
SameEnd(a, b) ==
    /\ a.t = b.t
    /\ a.t = "return" => a.value = b.value
    /\ a.t = "raise" => a.type = b.type

\* C23: a call that ended in one mode ends in the other mode, for the same arguments
\* and the same answers of the transport, with the same requests in the same order
\* and with the same result or an error of the same kind.
C23_ModesAgree ==
    (out # Idle) =>
        /\ Outcome(out, http) \in Replayed(arg.is_async)
        /\ \E twin \in Replayed(~arg.is_async) :
              SameRequests(twin.http, http) /\ SameEnd(twin.out, out)

(***************************************************************************)
(* C24                                                                     *)
(***************************************************************************)
ListCalled == out # Idle /\ arg.operation = "list"
\* the query parameters that carry the caller's page token and page size
CallerPage ==
    [pageSize  |-> IF arg.limit = Null THEN Absent ELSE arg.limit,
     pageToken |-> IF arg.after = Null THEN Absent ELSE arg.after]
\* the query parameters the one request of the call carries
SentPage ==
    IF "params" \in DOMAIN http[1] THEN http[1].params
    ELSE [pageSize |-> Absent, pageToken |-> Absent]
\* what the page the vendor answered with says about the next page
VendorNext(page) ==
    IF arg.provider = "vertex_ai"
    THEN [next_page_token |-> IF page.t = "jobs_page" THEN get(page, "nextPageToken") ELSE Null]
    ELSE LET is_page == ~is_batch_obj(page) /\ page.t = "page"
         IN  [has_more |-> IF is_page THEN get_default(page, "has_more", JBool(FALSE))
                           ELSE JBool(FALSE),
              last_id  |-> IF is_page THEN get(page, "last_id") ELSE Null]
\* what the envelope returned to the caller says about the next page
ReturnedNext(envelope) ==
    IF arg.provider = "vertex_ai" THEN [next_page_token |-> envelope.next_page_token]
    ELSE [has_more |-> envelope.has_more, last_id |-> envelope.last_id]

\* C24: a call of list_batches issues exactly one request, a GET that carries the
\* caller's page token and page size, whatever the answer says about more pages,
\* and a call that returns hands the vendor's next-page token to the caller.
C24_OnePageFetch ==
    ListCalled =>
        /\ Len(http) = 1 /\ http[1].method = "GET"
        /\ SentPage = CallerPage
        /\ out.t = "return" => ReturnedNext(out.value) = VendorNext(json(raw[1]))

(***************************************************************************)
(* C25                                                                     *)
(***************************************************************************)
\* one operation of one adapter was called and has ended
OperationCalled == out # Idle
\* the request was answered by a timeout or another transport failure, or by
\* an error status
AnswerFailed(answer) == is_raised(answer) \/ answer.status_code >= 400
\* the logical steps of the operation: the Vertex cancel reads the job after
\* the cancel call, every other operation is one step
LogicalSteps == IF arg.provider = "vertex_ai" /\ arg.operation = "cancel" THEN 2 ELSE 1

\* C25: the adapter layer never retries. Every operation issues at most one
\* request per logical step and no request twice, and a request that timed
\* out, failed in transport or was answered with an error status is the last
\* request of the operation, which ends with an error, whatever max_retries
\* the caller passed.
C25_NoRetries ==
    OperationCalled =>
        /\ Len(http) <= LogicalSteps
        /\ \A i, j \in 1..Len(http) : i < j => http[i] # http[j]
        /\ \A i \in 1..Len(raw) :
              AnswerFailed(raw[i]) => i = Len(http) /\ out.t = "raise"

\* a call with max_retries=3 whose only request timed out: one request was
\* issued and the call ended with an error
C25_Witness ==
    /\ OperationCalled
    /\ arg.max_retries = Num(3)
    /\ Len(http) = 1
    /\ is_raised(raw[1]) /\ raw[1].type = "ConnectTimeout"
    /\ out.t = "raise"

(***************************************************************************)
(* Concurrent calls on one adapter instance.  batch is the instance (self) *)
(* the calls share; arg[c] is the call of caller c, http[c] the requests   *)
(* it has issued, raw[c] the answers it has received and out[c] its        *)
(* outcome.  A call is suspended between a request and its answer, where   *)
(* the steps of the other calls interleave.                                *)
(***************************************************************************)
Callers == {1, 2}

\* AnthropicBatchesAPI.__init__
AnthropicBatchesAPI ==
    [class       |-> "anthropic",
     api_base    |-> [v |-> "https://api.anthropic.com", slashes |-> ""],
     api_version |-> "2023-06-01"]
\* VertexAIBatchPrediction.__init__(gcs_bucket_name)
VertexAIBatchPrediction(gcs_bucket_name) ==
    [class |-> "vertex_ai", gcs_bucket_name |-> gcs_bucket_name]

\* AnthropicBatchesAPI._build_headers(api_key): a new dict at every call
_build_headers(self, api_key) ==
    [x_api_key |-> api_key, anthropic_version |-> self.api_version,
     content_type |-> "application/json"]
\* headers = {"Content-Type": ..., "Authorization": f"Bearer {access_token}"}, the
\* token being the one _ensure_access_token gives for the credentials of the call
vertex_headers(access_token) ==
    [content_type |-> "application/json; charset=utf-8",
     authorization |-> "Bearer " \o access_token]

\* variant: the api_base of a call is kept on the instance
self_after_call_keeping_base(self, call) ==
    IF self.class = "anthropic" /\ call.api_base # Null
    THEN [self EXCEPT !.api_base = call.api_base]
    ELSE self
\* the instance after a step of an operation: the operations read api_base,
\* api_version and gcs_bucket_name and assign no field of self
self_after_call(self, call) == self

\* the operation of call on the instance self, the transport having given answers
\* so far: the requests up to the first one that is not answered yet, and the
\* outcome once every request is answered
operation(self, call, answers, now, uuid4) ==
    LET unanswered == TransportError("pending")
        answer == IF Len(answers) >= 1 THEN answers[1] ELSE unanswered
        get_answer == IF Len(answers) >= 2 THEN answers[2] ELSE unanswered
    IN  IF self.class = "anthropic"
        THEN \* base = api_base or self.api_base
             LET api_base == IF call.api_base = Null THEN self.api_base ELSE call.api_base
             IN  CASE call.operation = "create" ->
                          create_batch(api_base, JsonlContent(<<LineAt(
                              [kind |-> "object", cid |-> Absent, body |-> "dict"], 1)>>),
                              answer, now, uuid4)
                   [] call.operation = "retrieve" ->
                          retrieve_batch(api_base, "msgbatch_01", answer, now, uuid4)
                   [] call.operation = "list" -> list_batches(api_base, answer, now, uuid4)
                   [] call.operation = "cancel" ->
                          cancel_batch(api_base, "msgbatch_01", answer, now, uuid4)
        ELSE CASE call.operation = "create" ->
                      vertex_create_batch(call.is_async, call.api_base, answer)
               [] call.operation = "retrieve" ->
                      vertex_retrieve_batch(call.is_async, "123", call.api_base, answer)
               [] call.operation = "list" ->
                      vertex_list_batches(call.is_async, call.api_base, Null, Null, answer)
               [] call.operation = "cancel" ->
                      IF call.is_async THEN vertex_async_cancel_batch("123", answer, get_answer)
                      ELSE vertex_cancel_batch("123", call.api_base, answer, get_answer)

\* the headers the call sends with a request
headers_of(self, call) ==
    IF self.class = "anthropic" THEN _build_headers(self, call.api_key)
    ELSE vertex_headers(call.api_key)

\* what the transport answers a request of a concurrent call with: a timeout, a
\* 404 with an error body, or a 200 with a batch or a page of batches
ConcurrentAnswers(class) ==
    {a \in (IF class = "anthropic" THEN AnthropicAnswers ELSE VertexAnswers) :
        IF is_raised(a) THEN a.t = "transport_error"
        ELSE IF json(a) = ErrorJson("not found") THEN a.status_code = 404
        ELSE a.status_code = 200 /\ json(a) # NotJson}

InitConcurrent ==
    /\ batch \in {AnthropicBatchesAPI, VertexAIBatchPrediction("my-bucket")}
    /\ arg \in [Callers -> [operation : {"create", "retrieve", "cancel", "list"},
                            is_async : BOOLEAN,
                            api_base : {Null, [v |-> "https://proxy.example.com",
                                               slashes |-> ""]},
                            api_key : {"key-1", "key-2"}]]
    /\ raw = [c \in Callers |-> <<>>]
    /\ http = [c \in Callers |-> <<>>]
    /\ out = [c \in Callers |-> Idle]
    /\ calls = 0

\* caller c builds its next request and hands it to the transport
SendRequest(c) ==
    /\ out[c] = Idle /\ Len(http[c]) = Len(raw[c])
    /\ \E now \in Clock, uuid4 \in UUIDs :
          LET r == operation(batch, arg[c], raw[c], now, uuid4)
          IN  /\ Len(r.http) > Len(raw[c])
              /\ http' = [http EXCEPT ![c] =
                             Append(@, [request |-> r.http[Len(raw[c]) + 1],
                                        headers |-> headers_of(batch, arg[c])])]
    /\ batch' = self_after_call(batch, arg[c])
    /\ UNCHANGED <<raw, calls, arg, out>>

\* the transport answers the request caller c waits for; the call goes on to its
\* next request or ends
ReceiveAnswer(c) ==
    /\ out[c] = Idle /\ Len(http[c]) > Len(raw[c])
    /\ \E answer \in ConcurrentAnswers(batch.class), now \in Clock, uuid4 \in UUIDs :
          LET answers == Append(raw[c], answer)
              r == operation(batch, arg[c], answers, now, uuid4)
          IN  /\ raw' = [raw EXCEPT ![c] = answers]
              /\ out' = [out EXCEPT ![c] = IF Len(r.http) = Len(answers) THEN r.out ELSE Idle]
    /\ batch' = self_after_call(batch, arg[c])
    /\ UNCHANGED <<calls, arg, http>>

NextConcurrent == \E c \in Callers : SendRequest(c) \/ ReceiveAnswer(c)

SpecConcurrent == InitConcurrent /\ [][NextConcurrent]_vars

(***************************************************************************)
(* C26                                                                     *)
(***************************************************************************)
\* the instance as its constructor left it
Constructed ==
    IF batch.class = "anthropic" THEN AnthropicBatchesAPI
    ELSE VertexAIBatchPrediction("my-bucket")

LodashError(status_code, message) ==
    [t |-> "raise", type |-> "LodashError", status_code |-> status_code, message |-> message]

\* the fields of an EmbeddingResponse the transformation assigns
EmbeddingResponse(object, data, model, usage) ==
    [object |-> object, data |-> data, model |-> model, usage |-> usage]

\* a JSON object with a "data" key next to the keys _parse_lodash_error reads
EmbeddingsJson(data) ==
    [t |-> "object", errorMessage |-> Absent, error |-> Absent, message |-> Absent,
     data |-> data]

\* variant: the items are numbered from 1
openai_data_one_based(raw_embeddings) ==
    [i \in 1..Len(raw_embeddings) |->
        [object |-> "embedding", index |-> i, embedding |-> raw_embeddings[i]]]
\* for i, embedding_array in enumerate(raw_embeddings): openai_data.append({...})
openai_data(raw_embeddings) ==
    [i \in 1..Len(raw_embeddings) |->
        [object |-> "embedding", index |-> i - 1, embedding |-> raw_embeddings[i]]]

\* variant: only a 4xx or 5xx status is an error response
is_error_response_4xx(status_code) == status_code >= 400
\* raw_response.status_code != 200
is_error_response(status_code) == status_code # 200

\* transform_embedding_response(model, raw_response, model_response, ...): the
\* outcome and the model_response object after the call
transform_embedding_response(model, raw_response, model_response) ==
    LET response_json == raw_response.json
        unchanged(o) == [out |-> o, model_response |-> model_response]
    IN  IF response_json = NotJson
        THEN \* json.loads(raw_text) and _parse_lodash_error, any failure leaving
             \* f"Failed to decode response: {str(e)}"
             LET raw_text == raw_response.text
                 error_message ==
                     IF raw_text.value = NotJson
                     THEN Str("Failed to decode response: Invalid JSON")
                     ELSE _parse_lodash_error(raw_text.value)
             IN  unchanged(LodashError(raw_response.status_code, error_message))
        ELSE IF is_error_response(raw_response.status_code)
        THEN unchanged(LodashError(raw_response.status_code, _parse_lodash_error(response_json)))
        \* response_json.get: only a dict has it
        ELSE IF response_json.t # "object"
        THEN unchanged(Raise("AttributeError", Str("get"), Null))
        ELSE LET \* response_json.get("data", [])
                 raw_embeddings ==
                     IF "data" \in DOMAIN response_json /\ response_json.data # Absent
                     THEN response_json.data ELSE JArray(<<>>)
             IN  \* enumerate(None)
                 IF raw_embeddings = Null
                 THEN unchanged(Raise("TypeError", Str("enumerate"), Null))
                 ELSE LET num_inputs == Len(raw_embeddings.items)
                          estimated_total_tokens == num_inputs * 5
                          result ==
                              EmbeddingResponse("list", openai_data(raw_embeddings.items), model,
                                                [prompt_tokens |-> estimated_total_tokens,
                                                 total_tokens  |-> estimated_total_tokens])
                      IN  [out |-> Return(result), model_response |-> result]

\* raw embedding arrays
Vectors == {JArray(<<Num(1), Num(2)>>), JArray(<<Num(3)>>)}
\* what raw_response.json() gives when it does not raise
EmbeddingJsonValues ==
    {EmbeddingsJson(d) :
        d \in {Absent, Null}
              \cup {JArray(v) : v \in UNION {[1..n -> Vectors] : n \in 0..MaxItems}}}
    \cup ErrorJsonValues

InitEmbedding ==
    /\ raw = Idle
    /\ calls = 0
    /\ http = <<>>
    /\ out = Idle
    /\ \E status_code \in {200, 302, 401, 500},
          model_response \in {EmbeddingResponse("list", <<>>, Null, Null),
                              EmbeddingResponse("list", <<>>, Str("earlier-model"), Null)} :
          \/ \E response_json \in EmbeddingJsonValues :
                arg = [model |-> Str("all-MiniLM-L6-v2"),
                       raw_response |-> [status_code |-> status_code, json |-> response_json,
                                         text |-> ErrorText("json", TRUE, response_json)],
                       model_response |-> model_response]
          \/ \E raw_text \in ErrorTexts :
                arg = [model |-> Str("all-MiniLM-L6-v2"),
                       raw_response |-> [status_code |-> status_code, json |-> NotJson,
                                         text |-> raw_text],
                       model_response |-> model_response]
    /\ batch = arg.model_response

\* a call of transform_embedding_response(arg.model, arg.raw_response, arg.model_response)
TransformEmbeddingResponse ==
    /\ out = Idle
    /\ LET r == transform_embedding_response(arg.model, arg.raw_response, arg.model_response)
       IN  out' = r.out /\ batch' = r.model_response
    /\ UNCHANGED <<raw, calls, arg, http>>

NextEmbedding == TransformEmbeddingResponse

SpecEmbedding == InitEmbedding /\ [][NextEmbedding]_vars

(***************************************************************************)
(* C27                                                                     *)
(***************************************************************************)
TransformCalled == out # Idle
\* the response is a 200 whose JSON has a data array of raw embedding arrays
EmbeddingsReceived ==
    /\ arg.raw_response.status_code = 200
    /\ arg.raw_response.json # NotJson
    /\ arg.raw_response.json.t = "object"
    /\ "data" \in DOMAIN arg.raw_response.json
    /\ arg.raw_response.json.data \notin {Absent, Null}

ResponseFailed ==
    arg.raw_response.status_code # 200 \/ arg.raw_response.json = NotJson

\* C28: a failed response never gives an embedding result. The call raises
\* LodashError with the status code of the response and the message extracted
\* from the error body, or a "Failed to decode response" message when neither
\* json() nor the text can be parsed, and model_response is left as passed.
C28_FailedResponseRaises ==
    (TransformCalled /\ ResponseFailed) =>
        /\ out.t = "raise" /\ out.type = "LodashError"
        /\ out.status_code = arg.raw_response.status_code
        /\ out.message =
              IF arg.raw_response.json # NotJson THEN MessageRule(arg.raw_response.json)
              ELSE IF arg.raw_response.text.value # NotJson
              THEN MessageRule(arg.raw_response.text.value)
              ELSE Str("Failed to decode response: Invalid JSON")
        /\ batch = arg.model_response

\* a 302 with an error body, and a 200 whose body does not decode, both raised
C28_Witness ==
    /\ TransformCalled
    /\ \/ arg.raw_response.status_code = 302 /\ arg.raw_response.json # NotJson
       \/ arg.raw_response.status_code = 200 /\ arg.raw_response.json = NotJson
                                             /\ arg.raw_response.text.value = NotJson
    /\ out.t = "raise" /\ out.type = "LodashError"
    /\ batch = arg.model_response

(***************************************************************************)
(* C29                                                                     *)
(***************************************************************************)
\* the Vertex list_batches returned an envelope
VertexListed == ListCalled /\ arg.provider = "vertex_ai" /\ out.t = "return"
\* the items of batchPredictionJobs of the fetched page
PageJobs ==
    LET page == json(raw[1])
    IN  IF page.t = "jobs_page" /\ page.batchPredictionJobs \notin {Absent, Null}
        THEN page.batchPredictionJobs.items ELSE <<>>

\* C29: the envelope the Vertex list_batches returns, in both modes, is
\* consistent with the fetched page: data holds one mapped batch per item of
\* batchPredictionJobs in the page's order, has_more is true exactly when
\* next_page_token is a non-empty token, and first_id / last_id are the ids of
\* the first and the last element of data, both null exactly when data is empty.
C29_EnvelopeMatchesPage ==
    VertexListed =>
        LET envelope == out.value
        IN  /\ Len(envelope.data) = Len(PageJobs)
            /\ \A i \in 1..Len(PageJobs) :
                  envelope.data[i] =
                      transform_vertex_ai_batch_response_to_openai_batch_response(PageJobs[i])
            /\ envelope.has_more = (envelope.next_page_token \notin {Null, Str("")})
            /\ envelope.first_id = IF envelope.data = <<>> THEN Null ELSE envelope.data[1].id
            /\ envelope.last_id = IF envelope.data = <<>> THEN Null
                                  ELSE envelope.data[Len(envelope.data)].id
            /\ (envelope.first_id = Null) = (envelope.data = <<>>)
            /\ (envelope.last_id = Null) = (envelope.data = <<>>)

\* a page of two different jobs with a next-page token, and a page without items
\* that still carries a token
C29_Witness ==
    /\ VertexListed
    /\ \/ /\ Len(PageJobs) = 2 /\ PageJobs[1] # PageJobs[2]
          /\ out.value.first_id # out.value.last_id
          /\ out.value.has_more
       \/ /\ PageJobs = <<>> /\ out.value.has_more /\ out.value.first_id = Null

(***************************************************************************)
(* C30                                                                     *)
(***************************************************************************)
\* C30: create_batch rejects every submission that carries no usable request.
\* Whenever build_requests_from_jsonl yields zero items, an empty or missing
\* input_file_id included, the call ends with a validation error and no POST
\* with an empty requests list reaches the vendor.
C30_EveryEmptySubmissionRejected ==
    (Created /\ build_requests_from_jsonl(arg) = <<>>) =>
        /\ out.t = "raise" /\ out.type = "ValueError"
        /\ \A i \in 1..Len(http) : http[i].json.requests # <<>>

====
